---- MODULE Spec2Model ----
(***************************************************************************)
(* Mukoko News processing worker: the feed collector (feed_collector.py),  *)
(* the source-health scheduler (source_health.py), the document-store      *)
(* client (mongodb.py) and the clusterer (clustering.py), as one state     *)
(* machine.  Every outbound call (feed fetch, store RPC) is a suspension   *)
(* point: an action is the code that runs between the completion of one    *)
(* awaited call and the start of the next.                                 *)
(***************************************************************************)
EXTENDS Integers, Sequences, FiniteSets, TLC

\* ------------------------------------------------------------------ bounds
\* Largest consecutive_failures a stored source starts with (critical is 8).
MaxCF == 9
\* Sources in the store of the batch specification (more than one batch of 10).
NumBatchSources == 11
\* Collector invocations (cron or POST /feed/collect) in one behaviour.
MaxInvocations == 2
\* Last minute of the wall clock.
MaxNow == 30
\* Articles given to the clusterer.
MaxClusterArticles == 3
\* refresh_trending invocations in one behaviour.
MaxRefreshes == 1
\* Cron events in one behaviour.
MaxEvents == 2
\* sync_edge_cache invocations in one behaviour.
MaxSyncs == 3
\* AnthropicClient calls in one behaviour.
MaxCalls == 3
\* Requests to the router in one behaviour.
MaxRequests == 2
\* Articles of the trending corpus.
MaxCorpus == 2
\* Rows of a collection in the row-by-row sync specification.
MaxSyncRows == 2
\* Articles already in the store of the deduplication specification.
MaxStored == 3
\* articles in one ranking request
MaxRanked == 3
\* keywords in the dictionary of the keyword extractor
MaxDict == 9
\* extract_keywords calls in one behaviour
MaxExtracts == 1
\* articles in the stores of the search, and semantic_search calls
MaxDocs == 3
MaxSearches == 1
\* check_source_health invocations in one behaviour
MaxAudits == 2
\* characters of a title after its run of letters
MaxTail == 3
\* requests and cron invocations one isolate serves
MaxEntryRequests == 3

\* ------------------------------------------------------- values and helpers
\* Python None, or a key missing from a document (both read as falsy by .get(...) or ...).
NULL == 0 - 1
\* A timestamp string datetime.fromisoformat rejects (ValueError), or a naive one
\* (TypeError on the subtraction from an aware now).
BAD == 0 - 2

Min(a, b) == IF a <= b THEN a ELSE b

Range(s) == {s[i] : i \in 1..Len(s)}

RECURSIVE SumSeq(_)
SumSeq(s) == IF s = <<>> THEN 0 ELSE Head(s) + SumSeq(Tail(s))

\* s[:n]
Take(s, n) == SubSeq(s, 1, Min(Len(s), n))

\* [x for x in s if Test(x)]
FilterSeq(s, Test(_)) ==
    LET F[i \in 0..Len(s)] ==
            IF i = 0 THEN <<>>
            ELSE IF Test(s[i]) THEN Append(F[i - 1], s[i]) ELSE F[i - 1]
    IN  F[Len(s)]

\* list.sort / a store sort: stable and ascending; x goes after every element
\* it is not less than.
InsertSorted(x, s, Less(_, _)) ==
    LET k == Cardinality({j \in 1..Len(s) : ~Less(x, s[j])})
    IN  SubSeq(s, 1, k) \o <<x>> \o SubSeq(s, k + 1, Len(s))

StableSort(s, Less(_, _)) ==
    LET S[i \in 0..Len(s)] ==
            IF i = 0 THEN <<>> ELSE InsertSorted(s[i], S[i - 1], Less)
    IN  S[Len(s)]

\* ------------------------------------------------------------ source health
\* HEALTH_THRESHOLDS
HEALTH_DEGRADED == 1
HEALTH_FAILING == 4
HEALTH_CRITICAL == 8

\* FETCH_INTERVALS (minutes); critical has None.
INTERVAL_HEALTHY == 15
INTERVAL_DEGRADED == 30
INTERVAL_FAILING == 60

\* A classification that takes each threshold as the last value of the class
\* below it.
classify_health_above(consecutive_failures) ==
    IF consecutive_failures > HEALTH_CRITICAL THEN "critical"
    ELSE IF consecutive_failures > HEALTH_FAILING THEN "failing"
    ELSE IF consecutive_failures > HEALTH_DEGRADED THEN "degraded"
    ELSE "healthy"

classify_health(consecutive_failures) ==
    IF consecutive_failures >= HEALTH_CRITICAL THEN "critical"
    ELSE IF consecutive_failures >= HEALTH_FAILING THEN "failing"
    ELSE IF consecutive_failures >= HEALTH_DEGRADED THEN "degraded"
    ELSE "healthy"

FETCH_INTERVALS(health) ==
    CASE health = "healthy" -> INTERVAL_HEALTHY
      [] health = "degraded" -> INTERVAL_DEGRADED
      [] health = "failing" -> INTERVAL_FAILING
      [] OTHER -> NULL

\* classify_health(None) compares None >= 8: TypeError, not caught by should_fetch.
should_fetch_raises(source) == source.consecutive_failures = NULL

\* source.get("last_successful_fetch") or source.get("last_fetch_at")
last_fetch_of(source) ==
    IF source.last_successful_fetch # NULL THEN source.last_successful_fetch
    ELSE source.last_fetch_at

\* should_fetch with the never-fetched test ahead of the critical test.
should_fetch_unfetched_first(source, t) ==
    LET interval == FETCH_INTERVALS(classify_health(source.consecutive_failures))
        last == last_fetch_of(source)
    IN  IF last = NULL THEN TRUE
        ELSE IF interval = NULL THEN FALSE
        ELSE IF last = BAD THEN TRUE
        ELSE (t - last) >= interval

\* should_fetch that waits for a timestamp before it admits a source.
should_fetch_skip_unfetched(source, t) ==
    LET interval == FETCH_INTERVALS(classify_health(source.consecutive_failures))
        last == last_fetch_of(source)
    IN  IF interval = NULL THEN FALSE
        ELSE IF last = NULL THEN FALSE
        ELSE IF last = BAD THEN TRUE
        ELSE (t - last) >= interval

\* should_fetch with a strict comparison against the interval.
should_fetch_strict(source, t) ==
    LET interval == FETCH_INTERVALS(classify_health(source.consecutive_failures))
        last == last_fetch_of(source)
    IN  IF interval = NULL THEN FALSE
        ELSE IF last = NULL THEN TRUE
        ELSE IF last = BAD THEN TRUE
        ELSE (t - last) > interval

\* should_fetch(source) evaluated when the clock reads t; defined when it does not raise.
should_fetch(source, t) ==
    LET health == classify_health(source.consecutive_failures)
        interval == FETCH_INTERVALS(health)
        last == last_fetch_of(source)
    IN  IF interval = NULL THEN FALSE
        ELSE IF last = NULL THEN TRUE
        ELSE IF last = BAD THEN TRUE
        ELSE (t - last) >= interval

\* ------------------------------------------------------------ document store
\* Feed-collector constants.
BATCH_SIZE == 10
MAX_ARTICLES_PER_FEED == 20
\* Workers subrequest ceiling the batch size is chosen to respect.
SUBREQUEST_LIMIT == 50
\* limit=500 of the rss_sources query.
SOURCE_LIMIT == 500
\* Priority of a country missing from COUNTRY_PRIORITY.
PRIORITY_UNKNOWN == 99

\* The COUNTRY_PRIORITY table, in the order of its values 1..16.
COUNTRY_TABLE ==
    <<"ZW", "ZA", "KE", "NG", "GH", "TZ", "UG", "RW", "ET", "BW", "ZM", "MW",
      "EG", "MA", "NA", "MZ">>

\* COUNTRY_PRIORITY.get(country, 99).
COUNTRY_PRIORITY(country) ==
    IF \E p \in 1..Len(COUNTRY_TABLE) : COUNTRY_TABLE[p] = country
    THEN CHOOSE p \in 1..Len(COUNTRY_TABLE) : COUNTRY_TABLE[p] = country
    ELSE PRIORITY_UNKNOWN

\* The store's own ascending order on country_id strings (sort={"country_id": 1}).
CountryOrd(country) ==
    CASE country = "" -> 0
      [] country = "KE" -> 1
      [] country = "MZ" -> 2
      [] country = "XX" -> 3
      [] country = "ZA" -> 4
      [] country = "ZW" -> 5
      [] OTHER -> 6

VARIABLES
    now,          \* wall clock, in minutes
    faults,       \* what the environment may do: "http", "raise", "store"
    rss_sources,  \* collection rss_sources: [_id -> document]
    articles,     \* collection articles, in insertion (natural) order
    feeds,        \* what each source's feed URL serves: [_id -> sequence of items]
    run,          \* collect_feeds invocations: [RunIds -> frame]
    invocations,  \* collector invocations started so far
    attempt,      \* per source, the last fetch attempt and the gap before it
    cl,           \* the clusterer's call frame
    tr,           \* trending: the keyword corpus, the KV cache and the two call frames
    disp,         \* the cron dispatcher's call frame and its log
    sync,         \* edge cache sync: the D1 tables and the call frame
    llm,          \* AnthropicClient: the call frame
    req,          \* the router's call frame
    rk,           \* the feed ranker's call frame
    kw,           \* keyword extractor: the keywords collection and the call frame
    se,           \* semantic search: the vector index, the stores and the call frame
    hm,           \* the health manager's call frame
    ps,           \* the feed parser: the item at hand and what was made of it
    en            \* entry.py: the module-level _env and the requests in flight

vars == <<now, faults, rss_sources, articles, feeds, run, invocations, attempt, cl,
          tr, disp, sync, llm, req, rk, kw, se, hm, ps, en>>

\* The state of the services other than the collector and the clusterer.
service_vars == <<tr, disp, sync, llm, req>>

\* The state of the ranker, the keyword extractor, the search and the health
\* manager.
aux_vars == <<rk, kw, se, hm, ps, en>>

\* The state of the collector and the clusterer.
collector_vars == <<rss_sources, articles, feeds, run, invocations, attempt, cl>>

RunIds == {1, 2}

\* A parsed feed item: the two deduplication keys (both non-empty after parsing:
\* rss_guid falls back to the link, original_url to the guid).
ItemA == [rss_guid |-> 1, original_url |-> 1, published_at |-> 1]
ItemB == [rss_guid |-> 2, original_url |-> 2, published_at |-> 2]
ItemC == [rss_guid |-> 2, original_url |-> 1, published_at |-> 3]

\* A source document never audited: health_status "" and the quality fields
\* NULL stand for absent fields.
Source(id, country, cf, lsf, lfa) ==
    [id |-> id, enabled |-> TRUE, url |-> "feed", country_id |-> country,
     consecutive_failures |-> cf, last_successful_fetch |-> lsf,
     last_fetch_at |-> lfa, last_error_at |-> NULL, last_error |-> "",
     health_status |-> "", source_quality_score |-> NULL,
     avg_article_quality |-> NULL, avg_engagement |-> NULL,
     article_count_7d |-> NULL]

\* MongoDBClient._request: every failure (non-OK response, exception) is logged
\* and answered with {}; the outcome of one RPC is TRUE (served) or FALSE.
StoreOutcomes == IF "store" \in faults THEN {TRUE, FALSE} ELSE {TRUE}

\* The ids of a collection in natural order.
RECURSIVE IdSeq(_)
IdSeq(ids) ==
    IF ids = {} THEN <<>>
    ELSE LET m == CHOOSE x \in ids : \A y \in ids : x <= y
         IN  <<m>> \o IdSeq(ids \ {m})

\* MongoDBClient.find("rss_sources", {"enabled": True}, sort={"country_id": 1}, limit=500)
find_sources(ok) ==
    IF ~ok THEN <<>>
    ELSE LET ids == IdSeq({i \in DOMAIN rss_sources : rss_sources[i].enabled})
             docs == [k \in 1..Len(ids) |-> rss_sources[ids[k]]]
             sorted == StableSort(docs,
                          LAMBDA a, b : CountryOrd(a.country_id) < CountryOrd(b.country_id))
         IN  Take(sorted, SOURCE_LIMIT)

\* MongoDBClient.find("articles", {key: {"$in": wanted}}, limit=n): the first n
\* matching documents; {} (no documents) when the RPC fails.
find_articles_guid(ok, wanted, n) ==
    IF ~ok THEN <<>>
    ELSE Take(FilterSeq(articles, LAMBDA a : a.rss_guid \in wanted), n)

find_articles_url(ok, wanted, n) ==
    IF ~ok THEN <<>>
    ELSE Take(FilterSeq(articles, LAMBDA a : a.original_url \in wanted), n)

\* MongoDBClient.insert_many("articles", docs): appended when served, dropped
\* (and {} returned, nothing raised) when the RPC fails.
insert_many(ok, docs) == IF ok THEN articles \o docs ELSE articles

\* MongoDBClient.update_one("rss_sources", {"_id": id}, update) as _record_health
\* issues it; $inc of a null field is rejected by the store.
update_one_success(ok, id, t) ==
    IF ok /\ id \in DOMAIN rss_sources
    THEN [rss_sources EXCEPT ![id].consecutive_failures = 0,
                             ![id].last_successful_fetch = t,
                             ![id].last_fetch_at = t]
    ELSE rss_sources

update_one_failure(ok, id, t, error) ==
    IF ok /\ id \in DOMAIN rss_sources /\ rss_sources[id].consecutive_failures # NULL
    THEN [rss_sources EXCEPT ![id].consecutive_failures = @ + 1,
                             ![id].last_error_at = t,
                             ![id].last_fetch_at = t,
                             ![id].last_error = error]
    ELSE rss_sources

\* ------------------------------------------------------------ feed collector
\* What one fetch-and-process task may meet: the feed is served, the fetch fails
\* (non-OK response or exception inside _fetch_feed), or an unexpected exception
\* leaves the task (caught only by the gather barrier).
FetchOutcomes ==
    {"ok"} \cup (IF "http" \in faults THEN {"http_fail"} ELSE {})
           \cup (IF "raise" \in faults THEN {"raise"} ELSE {})

\* The value a task hands to gather: a dict, or an exception (exc).
Result(exc, n, error) == [exc |-> exc, new_articles |-> n, error |-> error]

Task(pc, result) ==
    [pc |-> pc, articles |-> <<>>, existing_guids |-> {}, new_articles |-> <<>>,
     result |-> result]

PendingTask == Task("pending", Result(FALSE, 0, ""))

\* The frame of one collect_feeds invocation.
IdleRun ==
    [pc |-> "idle", sources |-> <<>>, due |-> <<>>, tasks |-> <<>>, batch_start |-> 0,
     health_records |-> <<>>, total_new |-> 0, total_errors |-> 0, rec_now |-> NULL,
     hi |-> 0, served |-> <<>>, fetch_failed |-> {}, raised |-> {},
     summary |-> [error |-> "", sources_checked |-> 0, new_articles |-> 0, errors |-> 0]]

\* A sort key that orders by failures before the country priority.
sort_key_health_first(a, b) ==
    \/ a.consecutive_failures < b.consecutive_failures
    \/ /\ a.consecutive_failures = b.consecutive_failures
       /\ COUNTRY_PRIORITY(a.country_id) < COUNTRY_PRIORITY(b.country_id)

\* sort_key of _load_sources: (priority, failures), compared as Python tuples.
sort_key_less(a, b) ==
    \/ COUNTRY_PRIORITY(a.country_id) < COUNTRY_PRIORITY(b.country_id)
    \/ /\ COUNTRY_PRIORITY(a.country_id) = COUNTRY_PRIORITY(b.country_id)
       /\ a.consecutive_failures < b.consecutive_failures

\* Comparing (p, None) with (p, n) raises TypeError inside sources.sort.
sort_raises(docs) ==
    \E i, j \in 1..Len(docs) :
        /\ COUNTRY_PRIORITY(docs[i].country_id) = COUNTRY_PRIORITY(docs[j].country_id)
        /\ docs[i].consecutive_failures = NULL
        /\ docs[j].consecutive_failures # NULL

_load_sources(ok) == StableSort(find_sources(ok), sort_key_less)

\* due_sources = [s for s in sources if should_fetch(s)]
due_sources(sources, t) == FilterSeq(sources, LAMBDA s : should_fetch(s, t))

\* The 1-based positions of due_sources[batch_start:batch_start + BATCH_SIZE].
BatchIndices(due, batch_start) ==
    (batch_start + 1)..Min(batch_start + BATCH_SIZE, Len(due))

\* _fetch_and_process up to its first await: no feed URL returns at once,
\* otherwise the GET of the feed is in flight.
start_task(source) ==
    IF source.url = "" THEN Task("done", Result(FALSE, 0, "No feed URL"))
    ELSE Task("fetch", Result(FALSE, 0, ""))

\* asyncio.gather over one batch: every task of the batch is started.
start_batch(tasks, due, batch_start) ==
    [i \in 1..Len(due) |->
        IF i \in BatchIndices(due, batch_start) THEN start_task(due[i]) ELSE tasks[i]]

\* The fetch attempts a started batch makes, with the time since the previous
\* attempt on the same source and the failures the scheduler saw.
note_attempts(due, batch_start) ==
    [id \in DOMAIN attempt |->
        IF \E i \in BatchIndices(due, batch_start) : due[i].id = id /\ due[i].url # ""
        THEN LET i == CHOOSE k \in BatchIndices(due, batch_start) : due[k].id = id
             IN  [last |-> now,
                  gap |-> IF attempt[id].last = NULL THEN NULL ELSE now - attempt[id].last,
                  cf |-> due[i].consecutive_failures]
        ELSE attempt[id]]

\* A gather that returns as soon as one task of the batch has finished.
gather_first_completed(r) ==
    \E i \in BatchIndices(run[r].due, run[r].batch_start) : run[r].tasks[i].pc = "done"

\* await asyncio.gather(...) returns once every task of the batch has finished.
gather_complete(r) ==
    \A i \in BatchIndices(run[r].due, run[r].batch_start) : run[r].tasks[i].pc = "done"

\* The loop over zip(batch, results): one health record per source of the batch.
health_record(source, result) ==
    IF result.exc
    THEN [source_id |-> source.id, success |-> FALSE, error |-> result.error, articles |-> 0]
    ELSE [source_id |-> source.id, success |-> TRUE, error |-> "",
          articles |-> result.new_articles]

batch_records(due, tasks, batch_start) ==
    LET idx == BatchIndices(due, batch_start)
        lo == batch_start
    IN  [k \in 1..Cardinality(idx) |-> health_record(due[lo + k], tasks[lo + k].result)]

count_errors(records) == Cardinality({k \in 1..Len(records) : ~records[k].success})

sum_articles(records) == SumSeq([k \in 1..Len(records) |-> records[k].articles])

\* The summary collect_feeds returns.
Summary(error, checked, new, errors) ==
    [error |-> error, sources_checked |-> checked, new_articles |-> new, errors |-> errors]

\* parse_rss_feed: at most 20 items of the fetched feed, as articles. passed
\* lists the pipeline stages an article has gone through.
parse_rss_feed(items) ==
    LET kept == Take(items, MAX_ARTICLES_PER_FEED)
    IN  [k \in 1..Len(kept) |->
            [rss_guid |-> kept[k].rss_guid, original_url |-> kept[k].original_url,
             published_at |-> kept[k].published_at, passed |-> <<"fetch", "parse">>]]

\* The loop of _fetch_and_process over the articles _deduplicate returned:
\* content_hash (of the title and content, here the item the link serves),
\* created_at and ai_processed are set.
stamp(new_articles, t) ==
    [k \in 1..Len(new_articles) |->
        [rss_guid |-> new_articles[k].rss_guid,
         original_url |-> new_articles[k].original_url,
         published_at |-> new_articles[k].published_at,
         content_hash |-> new_articles[k].original_url,
         created_at |-> t,
         ai_processed |-> FALSE,
         passed |-> new_articles[k].passed \o <<"dedup", "stamp">>]]

\* _deduplicate's final filter.
dedup_filter(arts, existing_guids, existing_urls) ==
    FilterSeq(arts, LAMBDA a : a.rss_guid \notin existing_guids
                               /\ a.original_url \notin existing_urls)

\* --- actions of the collector ------------------------------------------------
\* collect_feeds is invoked (cron, or POST /feed/collect) in a free frame (the
\* lowest one: frames are interchangeable): the rss_sources query is in flight.
StartRun(r) ==
    /\ run[r].pc \in {"idle", "done", "raised"}
    /\ \A q \in RunIds : q < r => run[q].pc \notin {"idle", "done", "raised"}
    /\ invocations < MaxInvocations
    /\ invocations' = invocations + 1
    /\ run' = [run EXCEPT ![r] = [IdleRun EXCEPT !.pc = "load"]]
    /\ UNCHANGED <<now, faults, rss_sources, articles, feeds, attempt, cl, service_vars, aux_vars>>

\* _record_health(db, records) up to its first await, entered with the frame f
\* (all batches done): with no record it returns and collect_feeds returns.
enter_record_health(f) ==
    IF f.health_records = <<>>
    THEN [f EXCEPT !.pc = "done", !.rec_now = now,
                   !.summary = Summary("", Len(f.due), f.total_new, f.total_errors)]
    ELSE [f EXCEPT !.pc = "health", !.rec_now = now, !.hi = 1]

\* The rss_sources query is answered: sort, admission by should_fetch, and the
\* first batch is started (or the invocation returns or raises).
LoadSources(r) ==
    /\ run[r].pc = "load"
    /\ \E ok \in StoreOutcomes :
        LET docs == find_sources(ok)
            sources == _load_sources(ok)
            f == run[r]
        IN  IF docs = <<>>
            THEN /\ run' = [run EXCEPT ![r] =
                        [f EXCEPT !.pc = "done",
                                  !.summary = Summary("No sources found", 0, 0, 0)]]
                 /\ attempt' = attempt
            ELSE IF sort_raises(docs) \/ \E k \in 1..Len(docs) : should_fetch_raises(docs[k])
            THEN /\ run' = [run EXCEPT ![r] = [f EXCEPT !.pc = "raised"]]
                 /\ attempt' = attempt
            ELSE LET due == due_sources(sources, now)
                     g == [f EXCEPT !.sources = sources, !.due = due,
                                    !.tasks = [i \in 1..Len(due) |-> PendingTask]]
                 IN  IF due = <<>>
                     THEN /\ run' = [run EXCEPT ![r] = enter_record_health(g)]
                          /\ attempt' = attempt
                     ELSE /\ run' = [run EXCEPT ![r] =
                                 [g EXCEPT !.pc = "gather",
                                           !.tasks = start_batch(g.tasks, due, 0)]]
                          /\ attempt' = note_attempts(due, 0)
    /\ UNCHANGED <<now, faults, rss_sources, articles, feeds, invocations, cl, service_vars, aux_vars>>

\* The GET of a feed completes: _fetch_feed returns the XML or "", the feed is
\* parsed (at most 20 items), and the first dedup query is issued.
TaskFetch(r, i) ==
    /\ run[r].pc = "gather"
    /\ i \in DOMAIN run[r].tasks
    /\ run[r].tasks[i].pc = "fetch"
    /\ \E out \in FetchOutcomes :
        LET f == run[r]
            id == f.due[i].id
            parsed == parse_rss_feed(feeds[id])
        IN  run' = [run EXCEPT ![r] =
                CASE out = "http_fail" ->
                        [f EXCEPT !.tasks[i] = Task("done", Result(FALSE, 0, "Empty response")),
                                  !.fetch_failed = @ \cup {id}]
                  [] out = "raise" ->
                        [f EXCEPT !.tasks[i] = Task("done", Result(TRUE, 0, "exception")),
                                  !.raised = @ \cup {id}]
                  [] OTHER ->
                        IF parsed = <<>>
                        THEN [f EXCEPT !.tasks[i] = Task("done", Result(FALSE, 0, ""))]
                        ELSE [f EXCEPT !.tasks[i].pc = "find_guid",
                                       !.tasks[i].articles = parsed]]
    /\ UNCHANGED <<now, faults, rss_sources, articles, feeds, invocations, attempt, cl, service_vars, aux_vars>>

\* _deduplicate: the rss_guid query is answered; the original_url query is issued.
TaskFindGuid(r, i) ==
    /\ run[r].pc = "gather"
    /\ i \in DOMAIN run[r].tasks
    /\ run[r].tasks[i].pc = "find_guid"
    /\ \E ok \in StoreOutcomes :
        LET t == run[r].tasks[i]
            guids == [k \in 1..Len(t.articles) |-> t.articles[k].rss_guid]
            existing == find_articles_guid(ok, Range(guids), Len(guids))
        IN  run' = [run EXCEPT ![r].tasks[i].pc = "find_url",
                               ![r].tasks[i].existing_guids =
                                    {existing[k].rss_guid : k \in 1..Len(existing)}]
    /\ UNCHANGED <<now, faults, rss_sources, articles, feeds, invocations, attempt, cl, service_vars, aux_vars>>

\* _deduplicate: the original_url query is answered, the new articles are kept
\* and stamped, and insert_many is issued (or nothing is new and the task returns).
TaskFindUrl(r, i) ==
    /\ run[r].pc = "gather"
    /\ i \in DOMAIN run[r].tasks
    /\ run[r].tasks[i].pc = "find_url"
    /\ \E ok \in StoreOutcomes :
        LET t == run[r].tasks[i]
            urls == [k \in 1..Len(t.articles) |-> t.articles[k].original_url]
            existing == find_articles_url(ok, Range(urls), Len(urls))
            existing_urls == {existing[k].original_url : k \in 1..Len(existing)}
            new == dedup_filter(t.articles, t.existing_guids, existing_urls)
        IN  run' = [run EXCEPT ![r].tasks[i] =
                IF new = <<>>
                THEN Task("done", Result(FALSE, 0, ""))
                ELSE [t EXCEPT !.pc = "insert", !.new_articles = stamp(new, now)]]
    /\ UNCHANGED <<now, faults, rss_sources, articles, feeds, invocations, attempt, cl, service_vars, aux_vars>>

\* insert_many is answered; the task returns {"new_articles": len(new_articles)}.
TaskInsert(r, i) ==
    /\ run[r].pc = "gather"
    /\ i \in DOMAIN run[r].tasks
    /\ run[r].tasks[i].pc = "insert"
    /\ \E ok \in StoreOutcomes :
        LET t == run[r].tasks[i]
        IN  /\ articles' = insert_many(ok, t.new_articles)
            /\ run' = [run EXCEPT ![r].tasks[i] =
                    Task("done", Result(FALSE, Len(t.new_articles), ""))]
    /\ UNCHANGED <<now, faults, rss_sources, feeds, invocations, attempt, cl, service_vars, aux_vars>>

\* gather returns: the batch's health records and totals are taken, then the
\* next batch is started, or _record_health issues its first update.
GatherDone(r) ==
    /\ run[r].pc = "gather"
    /\ gather_complete(r)
    /\ LET f == run[r]
           recs == batch_records(f.due, f.tasks, f.batch_start)
           g == [f EXCEPT !.health_records = @ \o recs,
                          !.total_new = @ + sum_articles(recs),
                          !.total_errors = @ + count_errors(recs),
                          !.batch_start = @ + BATCH_SIZE]
       IN  IF g.batch_start < Len(g.due)
           THEN /\ run' = [run EXCEPT ![r] =
                       [g EXCEPT !.tasks = start_batch(g.tasks, g.due, g.batch_start)]]
                /\ attempt' = note_attempts(g.due, g.batch_start)
           ELSE /\ run' = [run EXCEPT ![r] = enter_record_health(g)]
                /\ attempt' = attempt
    /\ UNCHANGED <<now, faults, rss_sources, articles, feeds, invocations, cl, service_vars, aux_vars>>

\* _record_health: the update_one of record hi is answered; the next one is
\* issued, or collect_feeds returns its summary.
RecordHealth(r) ==
    /\ run[r].pc = "health"
    /\ \E ok \in StoreOutcomes :
        LET f == run[r]
            rec == f.health_records[f.hi]
            g == [f EXCEPT !.hi = @ + 1, !.served = Append(@, ok)]
        IN  /\ rss_sources' =
                IF rec.success
                THEN update_one_success(ok, rec.source_id, f.rec_now)
                ELSE update_one_failure(ok, rec.source_id, f.rec_now, rec.error)
            /\ run' = [run EXCEPT ![r] =
                    IF f.hi = Len(f.health_records)
                    THEN [g EXCEPT !.pc = "done",
                                   !.summary = Summary("", Len(f.due), f.total_new,
                                                       f.total_errors)]
                    ELSE g]
    /\ UNCHANGED <<now, faults, articles, feeds, invocations, attempt, cl, service_vars, aux_vars>>

\* Time passes.
TickBy(d) ==
    /\ now + d <= MaxNow
    /\ now' = now + d
    /\ UNCHANGED <<faults, rss_sources, articles, feeds, run, invocations, attempt, cl, service_vars, aux_vars>>

\* ---------------------------------------------------------------- clusterer
\* similarity_threshold default (0.35) and the semantic threshold (0.75), in
\* hundredths; max_related and max_clusters defaults.
DEFAULT_THRESHOLD == 35
SEMANTIC_THRESHOLD == 75
DEFAULT_MAX_RELATED == 4
DEFAULT_MAX_CLUSTERS == 10

\* The inner loop with the assigned test left out: an article already placed in
\* a cluster may be related again.
related_of_reassign(i, arts, sim, assigned, threshold, max_related) ==
    LET n == Len(arts)
        R[j \in i..n] ==
            IF j = i THEN [rel |-> <<>>, asg |-> assigned \cup {i}, stop |-> FALSE,
                           article_count |-> 1]
            ELSE LET p == R[j - 1]
                 IN  IF p.stop THEN p
                     ELSE IF arts[i].source = arts[j].source THEN p
                     ELSE IF sim[<<i, j>>] >= threshold
                     THEN [rel |-> Append(p.rel, j), asg |-> p.asg \cup {j},
                           stop |-> Len(p.rel) + 1 >= max_related,
                           article_count |-> p.article_count + 1]
                     ELSE p
    IN  R[n]

\* The inner loop of _build_clusters for primary i: j runs over i+1..n, skipping
\* assigned and same-source articles; the break is tested after an append only.
\* article_count starts at 1 and is incremented with every append.
related_of(i, arts, sim, assigned, threshold, max_related) ==
    LET n == Len(arts)
        R[j \in i..n] ==
            IF j = i THEN [rel |-> <<>>, asg |-> assigned \cup {i}, stop |-> FALSE,
                           article_count |-> 1]
            ELSE LET p == R[j - 1]
                 IN  IF p.stop \/ j \in p.asg THEN p
                     ELSE IF arts[i].source = arts[j].source THEN p
                     ELSE IF sim[<<i, j>>] >= threshold
                     THEN [rel |-> Append(p.rel, j), asg |-> p.asg \cup {j},
                           stop |-> Len(p.rel) + 1 >= max_related,
                           article_count |-> p.article_count + 1]
                     ELSE p
    IN  R[n]

\* _build_clusters: clusters as [primary, related] over positions of the input.
_build_clusters(arts, sim, threshold, max_related, max_clusters) ==
    LET n == Len(arts)
        B[i \in 0..n] ==
            IF i = 0 THEN [clusters |-> <<>>, asg |-> {}, stop |-> FALSE]
            ELSE LET p == B[i - 1]
                 IN  IF p.stop \/ i \in p.asg THEN p
                     ELSE LET c == related_of(i, arts, sim, p.asg, threshold, max_related)
                          IN  [clusters |-> Append(p.clusters,
                                                   [primary |-> i, related |-> c.rel,
                                                    article_count |-> c.article_count]),
                               asg |-> c.asg,
                               stop |-> Len(p.clusters) + 1 >= max_clusters]
    IN  B[n].clusters

\* cluster_articles: no article gives no cluster; the semantic path (embeddings
\* available) uses threshold 0.75 and its result is returned when non-empty;
\* otherwise the Jaccard path with the configured threshold.
cluster_articles(arts, sim, method, threshold, max_related, max_clusters) ==
    IF arts = <<>> THEN [clusters |-> <<>>, method |-> "none"]
    ELSE LET semantic == _build_clusters(arts, sim, SEMANTIC_THRESHOLD, max_related,
                                         max_clusters)
         IN  IF method = "semantic" /\ Len(arts) >= 2 /\ semantic # <<>>
             THEN [clusters |-> semantic, method |-> "semantic"]
             ELSE [clusters |-> _build_clusters(arts, sim, threshold, max_related,
                                                max_clusters),
                   method |-> "jaccard"]

ClusterIdle ==
    [pc |-> "idle", articles |-> <<>>, sim |-> <<>>, method |-> "none", threshold |-> 0,
     max_related |-> 0, max_clusters |-> 0, result |-> [clusters |-> <<>>, method |-> "none"]]

ClusterSources == {"Herald", "NewsDay"}
SimLevels == {0, DEFAULT_THRESHOLD, SEMANTIC_THRESHOLD}
Pairs(n) == {p \in (1..n) \X (1..n) : p[1] < p[2]}

\* POST /clustering/cluster: the handler calls cluster_articles on the request.
ClusterCall ==
    /\ cl.pc = "called"
    /\ cl' = [cl EXCEPT !.pc = "returned",
                        !.result = cluster_articles(cl.articles, cl.sim, cl.method,
                                                    cl.threshold, cl.max_related,
                                                    cl.max_clusters)]
    /\ UNCHANGED <<now, faults, rss_sources, articles, feeds, run, invocations, attempt, service_vars, aux_vars>>

\* ------------------------------------------------------------------ trending
\* expirationTtl=1800 seconds, in minutes.
TRENDING_TTL == 30
\* _hours_ago_iso(24), in minutes.
TRENDING_WINDOW == 1440
\* {"$limit": 20}
TRENDING_LIMIT == 20
\* The countries refresh_trending caches.
TRENDING_COUNTRIES == <<"ZW", "ZA", "KE", "NG", "GH", "TZ">>

\* get_trending's cache key: f"trending:{country_id or 'global'}".
cache_key(country_id) == IF country_id = "" THEN "global" ELSE country_id

CacheKeys == {"global"} \cup Range(TRENDING_COUNTRIES) \cup {"BW"}

\* 100 * log10(n), rounded, for the engagement sums the corpus can produce.
Log10x100(n) ==
    CASE n <= 1 -> 0
      [] n = 2 -> 30
      [] n = 3 -> 48
      [] n = 4 -> 60
      [] n = 5 -> 70
      [] OTHER -> 78

\* {"$sum": {"$ifNull": ["$view_count", 0]}} over a group (likes and bookmarks
\* are 0 in the corpus).
RECURSIVE SumViews(_)
SumViews(group) ==
    IF group = {} THEN 0
    ELSE LET a == CHOOSE x \in group : TRUE
         IN  a.view_count + SumViews(group \ {a})

\* The $match stage: articles published since the given time, of the country.
trending_match(corpus, country_id, since) ==
    {a \in corpus : a.published_at >= since
                    /\ (country_id = "" \/ a.country_id = country_id)}

\* The $group and $addFields stages for one keyword (scores times 100).
trending_group(matched, keyword) ==
    LET of == {a \in matched : a.keyword = keyword}
        views == SumViews(of)
    IN  [keyword |-> keyword,
         article_count |-> Cardinality(of),
         engagement_score |-> views,
         score |-> Cardinality(of) * (100 + Log10x100(views + 1))]

\* _compute_trending(db, country_id) with the window starting at since: the
\* aggregation's rows, best score first, at most 20; [] when the aggregation fails.
_compute_trending(ok, corpus, country_id, since) ==
    IF ~ok THEN <<>>
    ELSE LET matched == trending_match(corpus, country_id, since)
             kws == IdSeq({a.keyword : a \in matched})
             rows == [k \in 1..Len(kws) |-> trending_group(matched, kws[k])]
             sorted == StableSort(rows, LAMBDA a, b : a.score > b.score)
         IN  Take(sorted, TRENDING_LIMIT)

\* An absent KV entry; a present one holds <<value>>.
NoEntry == [value |-> <<>>, expires |-> 0]

\* env.CACHE_STORAGE.get(key) at time t: <<value>> while the TTL runs, else <<>>
\* (None).
kv_get(kv, key, t) == IF t < kv[key].expires THEN kv[key].value ELSE <<>>

\* env.CACHE_STORAGE.put(key, value, expirationTtl=1800) at time t.
kv_put(kv, key, value, t) ==
    [kv EXCEPT ![key] = [value |-> <<value>>, expires |-> t + TRENDING_TTL]]

RefreshIdle ==
    [pc |-> "idle", k |-> 0, since |-> 0, global_topics |-> <<>>,
     country_topics |-> <<>>, cached |-> <<>>, result |-> <<>>]

GetIdle == [pc |-> "idle", country_id |-> "", since |-> 0, source |-> "none", result |-> <<>>]

TrendingIdle ==
    [corpus |-> {}, kv |-> [key \in CacheKeys |-> NoEntry], refreshes |-> 0,
     refresh |-> RefreshIdle, get |-> GetIdle]

\* The countries that got topics, in the order refresh_trending inserted them.
cached_countries(country_topics) ==
    FilterSeq(TRENDING_COUNTRIES, LAMBDA c : country_topics[c] # <<>>)

\* refresh_trending is invoked (cron */30): the global aggregation is issued.
RefreshStart ==
    /\ tr.refresh.pc \in {"idle", "done"}
    /\ tr.refreshes < MaxRefreshes
    /\ tr' = [tr EXCEPT !.refreshes = @ + 1,
                        !.refresh = [RefreshIdle EXCEPT
                            !.pc = "compute", !.since = now - TRENDING_WINDOW,
                            !.country_topics = [c \in Range(TRENDING_COUNTRIES) |-> <<>>]]]
    /\ UNCHANGED <<now, faults, collector_vars, disp, sync, llm, req, aux_vars>>

\* An aggregation of refresh_trending is answered: the next one is issued, or,
\* after the last country, the result is built and the first KV put is issued.
RefreshCompute ==
    /\ tr.refresh.pc = "compute"
    /\ \E ok \in StoreOutcomes :
        LET f == tr.refresh
            country == IF f.k = 0 THEN "" ELSE TRENDING_COUNTRIES[f.k]
            topics == _compute_trending(ok, tr.corpus, country, f.since)
            g == IF f.k = 0 THEN [f EXCEPT !.global_topics = topics]
                 ELSE [f EXCEPT !.country_topics[country] = topics]
        IN  tr' = [tr EXCEPT !.refresh =
                IF f.k < Len(TRENDING_COUNTRIES)
                THEN [g EXCEPT !.k = f.k + 1, !.since = now - TRENDING_WINDOW]
                ELSE [g EXCEPT !.pc = "put", !.k = 0,
                               !.cached = cached_countries(g.country_topics),
                               !.result = [global |-> g.global_topics,
                                           countries |-> g.country_topics,
                                           updated_at |-> now]]]
    /\ UNCHANGED <<now, faults, collector_vars, disp, sync, llm, req, aux_vars>>

\* A KV put of refresh_trending is answered: "trending:global" holds the whole
\* result, "trending:<country>" holds {"topics", "updated_at"}; a put that fails
\* ends the writes; refresh_trending returns after the last one.
RefreshPut ==
    /\ tr.refresh.pc = "put"
    /\ \E ok \in (IF "kv" \in faults THEN {TRUE, FALSE} ELSE {TRUE}) :
        LET f == tr.refresh
            key == IF f.k = 0 THEN "global" ELSE f.cached[f.k]
            value == IF f.k = 0 THEN f.result
                     ELSE [topics |-> f.country_topics[key], updated_at |-> now]
        IN  tr' = [tr EXCEPT
                !.kv = IF ok THEN kv_put(tr.kv, key, value, now) ELSE tr.kv,
                !.refresh = IF ok /\ f.k < Len(f.cached)
                            THEN [f EXCEPT !.k = f.k + 1]
                            ELSE [f EXCEPT !.pc = "done"]]
    /\ UNCHANGED <<now, faults, collector_vars, disp, sync, llm, req, aux_vars>>

\* get_trending(env, country_id) is invoked (GET /trending, GET /trending/<c>):
\* the KV read is issued.
GetStart(country_id) ==
    /\ tr.get.pc \in {"idle", "returned"}
    /\ tr' = [tr EXCEPT !.get = [GetIdle EXCEPT !.pc = "read", !.country_id = country_id]]
    /\ UNCHANGED <<now, faults, collector_vars, disp, sync, llm, req, aux_vars>>

\* The KV read is answered: a hit is returned as stored, a miss (or a failed
\* read) issues the live aggregation.
GetRead ==
    /\ tr.get.pc = "read"
    /\ \E ok \in (IF "kv" \in faults THEN {TRUE, FALSE} ELSE {TRUE}) :
        LET cached == IF ok THEN kv_get(tr.kv, cache_key(tr.get.country_id), now) ELSE <<>>
        IN  tr' = [tr EXCEPT !.get =
                IF cached # <<>>
                THEN [tr.get EXCEPT !.pc = "returned", !.source = "cache",
                                    !.result = cached[1]]
                ELSE [tr.get EXCEPT !.pc = "compute", !.since = now - TRENDING_WINDOW]]
    /\ UNCHANGED <<now, faults, collector_vars, disp, sync, llm, req, aux_vars>>

\* The live aggregation is answered: {"topics": topics, "updated_at": now}.
GetCompute ==
    /\ tr.get.pc = "compute"
    /\ \E ok \in StoreOutcomes :
        tr' = [tr EXCEPT !.get = [tr.get EXCEPT
                !.pc = "returned", !.source = "live",
                !.result = [topics |-> _compute_trending(ok, tr.corpus,
                                            tr.get.country_id, tr.get.since),
                            updated_at |-> now]]]
    /\ UNCHANGED <<now, faults, collector_vars, disp, sync, llm, req, aux_vars>>

\* ----------------------------------------------------------- cron dispatcher
CronPatterns ==
    {"*/15 * * * *", "0 * * * *", "*/30 * * * *", "0 */6 * * *", "0 0 * * *", ""}

\* The pipeline handle_scheduled awaits for a pattern; "" for the else branch.
pipeline_for(cron) ==
    CASE cron = "*/15 * * * *" -> "collect_feeds"
      [] cron = "0 * * * *"    -> "sync_edge_cache"
      [] cron = "*/30 * * * *" -> "refresh_trending"
      [] cron = "0 */6 * * *"  -> "check_source_health"
      [] OTHER -> ""

\* How an awaited pipeline can end: a summary, a summary with an error key, no
\* summary at all, or an exception.
PipelineOutcomes == {"summary", "error_summary", "none", "raise"}

\* _log's status for a returned result.
log_status(outcome) == IF outcome = "summary" THEN "ok" ELSE "error"

\* handle_scheduled without its except clause.
cron_no_barrier(outcome) ==
    IF outcome = "raise" THEN [log |-> "none", raised |-> TRUE]
    ELSE [log |-> log_status(outcome), raised |-> FALSE]

\* The try/except of handle_scheduled around the awaited pipeline: what the
\* dispatcher logs, and whether the exception leaves handle_scheduled.
cron_barrier(outcome) ==
    IF outcome = "raise" THEN [log |-> "failed", raised |-> FALSE]
    ELSE [log |-> log_status(outcome), raised |-> FALSE]

DispatchIdle ==
    [pc |-> "idle", cron |-> "", invoked |-> <<>>, log |-> "none", events |-> 0,
     history |-> <<>>]

\* on_scheduled -> handle_scheduled(event): the pattern is matched and the
\* pipeline awaited; an unknown pattern is logged and the handler returns.
Scheduled(cron) ==
    /\ disp.pc \in {"idle", "returned"}
    /\ disp.events < MaxEvents
    /\ LET name == pipeline_for(cron)
           past == IF disp.pc = "returned"
                   THEN Append(disp.history, [cron |-> disp.cron, invoked |-> disp.invoked])
                   ELSE disp.history
       IN  disp' = IF name = ""
                   THEN [disp EXCEPT !.pc = "returned", !.cron = cron, !.invoked = <<>>,
                                     !.log = "unknown", !.events = @ + 1, !.history = past]
                   ELSE [disp EXCEPT !.pc = "await", !.cron = cron, !.invoked = <<name>>,
                                     !.log = "none", !.events = @ + 1, !.history = past]
    /\ UNCHANGED <<now, faults, collector_vars, tr, sync, llm, req, aux_vars>>

\* The awaited pipeline ends: its result is logged, or its exception is caught
\* and logged.
PipelineEnds ==
    /\ disp.pc = "await"
    /\ \E outcome \in PipelineOutcomes :
        LET b == cron_barrier(outcome)
        IN  disp' = [disp EXCEPT !.pc = IF b.raised THEN "raised" ELSE "returned",
                                 !.log = b.log]
    /\ UNCHANGED <<now, faults, collector_vars, tr, sync, llm, req, aux_vars>>

\* ----------------------------------------------------------- edge cache sync
\* "Called by cron every hour", in minutes.
SYNC_PERIOD == 60
\* timedelta(hours=2), in minutes.
SYNC_LOOKBACK == 120
\* The limits of the three queries.
SYNC_ARTICLE_LIMIT == 200
SYNC_KEYWORD_LIMIT == 500
SYNC_CATEGORY_LIMIT == 50

SyncTables == <<"articles", "keywords", "categories">>

\* The table synced after the given one; "" after the last.
next_table(table) ==
    CASE table = "articles" -> "keywords"
      [] table = "keywords" -> "categories"
      [] OTHER -> ""

\* _id of the article stored at position k of the collection.
article_id(k) == k

\* db.find("articles", {"$or": [created_at >= since, updated_at >= since]},
\* sort={"published_at": -1}, limit=200): the _ids of the rows (the collector
\* never sets updated_at).
sync_find_articles(since) ==
    LET ids == [k \in 1..Len(articles) |-> k]
        hits == SelectSeq(ids, LAMBDA k : articles[k].created_at >= since)
        sorted == SortSeq(hits,
                      LAMBDA a, b : \/ articles[a].published_at > articles[b].published_at
                                    \/ /\ articles[a].published_at = articles[b].published_at
                                       /\ a < b)
    IN  Take([p \in 1..Len(sorted) |-> article_id(sorted[p])], SYNC_ARTICLE_LIMIT)

\* The rows of one of the three queries of sync_edge_cache, as their ids.
sync_find(table, since) ==
    CASE table = "articles" -> sync_find_articles(since)
      [] table = "keywords" -> Take(sync.keywords, SYNC_KEYWORD_LIMIT)
      [] OTHER -> Take(sync.categories, SYNC_CATEGORY_LIMIT)

\* How a query of sync_edge_cache can end: rows, no rows (the RPC failed and
\* _request answered {}), or an exception out of db.find.
SyncFindOutcomes ==
    {"ok"} \cup (IF "store" \in faults THEN {"empty"} ELSE {})
           \cup (IF "raise" \in faults THEN {"raise"} ELSE {})

\* How the INSERT OR REPLACE of one row can end.
UpsertOutcomes == {"ok"} \cup (IF "d1" \in faults THEN {"raise"} ELSE {})

NoCounts == [t \in Range(SyncTables) |-> 0]

SyncFrameIdle ==
    [pc |-> "idle", table |-> "articles", started |-> NULL, since |-> 0, rows |-> <<>>,
     i |-> 0, stats |-> NoCounts, errors |-> 0, written |-> NoCounts, failed |-> 0,
     fetched |-> NoCounts, attempted |-> NoCounts, result |-> <<>>]

SyncIdle ==
    [d1_bound |-> TRUE, keywords |-> <<>>, categories |-> <<>>,
     d1 |-> [t \in Range(SyncTables) |-> {}], syncs |-> 0, last_done_start |-> NULL,
     f |-> SyncFrameIdle]

\* The frame after the loop over one table (or its failed query): the next
\* table's query is issued, or the stats are returned.
sync_advance(f) ==
    IF next_table(f.table) = ""
    THEN [f EXCEPT !.pc = "returned",
                   !.result = [articles |-> f.stats["articles"],
                               keywords |-> f.stats["keywords"],
                               categories |-> f.stats["categories"],
                               errors |-> f.errors]]
    ELSE [f EXCEPT !.pc = "find", !.table = next_table(f.table), !.rows = <<>>, !.i = 0]

\* sync_edge_cache(env) is invoked (cron, hourly): without the D1 binding it
\* returns an error summary, otherwise the articles query is issued.
SyncStart ==
    /\ sync.f.pc \in {"idle", "returned"}
    /\ sync.syncs < MaxSyncs
    /\ sync' = [sync EXCEPT
            !.syncs = @ + 1,
            !.f = IF ~sync.d1_bound
                  THEN [SyncFrameIdle EXCEPT
                          !.pc = "returned", !.started = now,
                          !.result = [error |-> "D1 binding not available", synced |-> 0]]
                  ELSE [SyncFrameIdle EXCEPT
                          !.pc = "find", !.table = "articles", !.started = now,
                          !.since = now - SYNC_LOOKBACK]]
    /\ UNCHANGED <<now, faults, collector_vars, tr, disp, llm, req, aux_vars>>

\* A query of sync_edge_cache is answered: the loop over its rows starts; an
\* exception is caught by the section's except (counted in errors for the
\* articles only) and the next section starts.
SyncFind ==
    /\ sync.f.pc = "find"
    /\ \E out \in SyncFindOutcomes :
        LET f == sync.f
            rows == IF out = "ok" THEN sync_find(f.table, f.since) ELSE <<>>
            g == IF out = "raise" /\ f.table = "articles"
                 THEN [f EXCEPT !.errors = @ + 1] ELSE f
            h == IF rows = <<>> THEN sync_advance(g)
                 ELSE [g EXCEPT !.pc = "upsert", !.rows = rows, !.i = 1,
                                !.fetched[f.table] = Len(rows)]
        IN  sync' = [sync EXCEPT
                !.f = h,
                !.last_done_start = IF h.pc = "returned" THEN f.started ELSE @]
    /\ UNCHANGED <<now, faults, collector_vars, tr, disp, llm, req, aux_vars>>

\* _upsert_article / _upsert_keyword / _upsert_category for the current row ends:
\* a row without an id is skipped inside the helper, a statement that raises is
\* counted in errors, and in both other cases the table's counter is incremented.
SyncUpsert ==
    /\ sync.f.pc = "upsert"
    /\ \E out \in UpsertOutcomes :
        LET f == sync.f
            id == f.rows[f.i]
            wrote == out = "ok" /\ id # NULL
            g == IF out = "raise" /\ id # NULL
                 THEN [f EXCEPT !.errors = @ + 1, !.failed = @ + 1,
                                !.attempted[f.table] = @ + 1]
                 ELSE [f EXCEPT !.stats[f.table] = @ + 1,
                                !.attempted[f.table] = @ + 1,
                                !.written[f.table] = IF wrote THEN @ + 1 ELSE @]
            h == IF f.i < Len(f.rows) THEN [g EXCEPT !.i = f.i + 1] ELSE sync_advance(g)
        IN  sync' = [sync EXCEPT
                !.f = h,
                !.d1[f.table] = IF wrote THEN @ \cup {id} ELSE @,
                !.last_done_start = IF h.pc = "returned" THEN f.started ELSE @]
    /\ UNCHANGED <<now, faults, collector_vars, tr, disp, llm, req, aux_vars>>

\* An hour passes between two syncs.
SyncTick ==
    /\ sync.f.pc \in {"idle", "returned"}
    /\ now < SYNC_PERIOD * MaxSyncs
    /\ now' = now + SYNC_PERIOD
    /\ UNCHANGED <<faults, collector_vars, service_vars, aux_vars>>

\* ----------------------------------------------------------- AnthropicClient
\* MAX_RETRIES of ai_client.py; complete never reads it.
MAX_RETRIES == 2

\* What gateway.run can answer: an object or a dict whose content[0] carries a
\* text, a result without content, or an exception.
GatewayShapes == {"object", "dict", "no_content", "raise"}
GatewayTexts == {"json", "fenced_json", "prose", ""}

\* AnthropicClient.complete's return value for an answer of gateway.run.
complete_result(shape, text) ==
    CASE shape = "raise" -> ""
      [] shape = "no_content" -> "prose"
      [] OTHER -> text

\* AnthropicClient.extract_json's return value for the text complete returned:
\* a parsed object, or None.
extract_json_result(text) ==
    IF text \in {"json", "fenced_json"} THEN "parsed" ELSE "None"

LLMIdle ==
    [pc |-> "idle", op |-> "none", attempts |-> 0, failed |-> FALSE, result |-> "None",
     calls |-> 0, log |-> <<>>]

\* complete or extract_json is called: the request is built and gateway.run is
\* awaited.
LLMCall(op) ==
    /\ llm.pc \in {"idle", "returned"}
    /\ llm.calls < MaxCalls
    /\ llm' = [llm EXCEPT !.pc = "await", !.op = op, !.attempts = 1, !.failed = FALSE,
                          !.result = "None", !.calls = @ + 1,
                          !.log = IF llm.pc = "returned" THEN Append(@, llm.result) ELSE @]
    /\ UNCHANGED <<now, faults, collector_vars, tr, disp, sync, req, aux_vars>>

\* gateway.run is answered: the text is returned, or "" after an exception;
\* extract_json parses what complete returned.
LLMAnswer ==
    /\ llm.pc = "await"
    /\ \E shape \in GatewayShapes : \E text \in GatewayTexts :
        LET out == complete_result(shape, text)
        IN  llm' = [llm EXCEPT
                !.pc = "returned",
                !.failed = (shape = "raise"),
                !.result = IF llm.op = "complete" THEN out ELSE extract_json_result(out)]
    /\ UNCHANGED <<now, faults, collector_vars, tr, disp, sync, req, aux_vars>>

\* --------------------------------------------------------------------- router
\* The routes of handle_request, in the order it tests them; body tells whether
\* the branch awaits _body(request). "/health" answers every method and
\* "/trending/" is a prefix.
RouteTable ==
    << [path |-> "/rss/parse",          method |-> "POST", body |-> TRUE],
       [path |-> "/content/clean",      method |-> "POST", body |-> TRUE],
       [path |-> "/content/process",    method |-> "POST", body |-> TRUE],
       [path |-> "/keywords/extract",   method |-> "POST", body |-> TRUE],
       [path |-> "/quality/score",      method |-> "POST", body |-> TRUE],
       [path |-> "/clustering/cluster", method |-> "POST", body |-> TRUE],
       [path |-> "/search/query",       method |-> "POST", body |-> TRUE],
       [path |-> "/search/trending",    method |-> "GET",  body |-> FALSE],
       [path |-> "/feed/rank",          method |-> "POST", body |-> TRUE],
       [path |-> "/content/scrape",     method |-> "POST", body |-> TRUE],
       [path |-> "/feed/collect",       method |-> "POST", body |-> FALSE],
       [path |-> "/trending",           method |-> "GET",  body |-> FALSE],
       [path |-> "/trending/",          method |-> "GET",  body |-> FALSE],
       [path |-> "/sources/health",     method |-> "GET",  body |-> FALSE] >>

\* path == route.path, or path.startswith("/trending/").
path_matches(route, path) ==
    IF route.path = "/trending/" THEN path \in {"/trending/zw", "/trending/"}
    ELSE path = route.path

\* The first branch of handle_request a request enters, as <<route>>; <<>> when
\* it falls through to the 404.
route_of(path, method) ==
    LET hits == {k \in 1..Len(RouteTable) :
                    path_matches(RouteTable[k], path) /\ RouteTable[k].method = method}
    IN  IF hits = {} THEN <<>>
        ELSE <<RouteTable[CHOOSE k \in hits : \A j \in hits : k <= j]>>

RequestPaths ==
    {RouteTable[k].path : k \in 1..Len(RouteTable)} \cup {"/health", "/trending/zw", "/nope"}
RequestMethods == {"GET", "POST", "PUT"}
\* What the request carries: a JSON object, nothing, text that is not JSON, JSON
\* that is not an object, or a body that cannot be read.
RequestBodies == {"object", "empty", "not_json", "json_list", "unreadable"}

\* _body(request): the parsed JSON, {} for an empty, unparseable or unreadable body.
_body(body) ==
    CASE body = "object" -> "dict"
      [] body = "json_list" -> "list"
      [] OTHER -> "empty_dict"

\* _json(data, status).
_json(status, error) == [status |-> status, error |-> error]

\* handle_request without its except clause.
router_no_barrier(outcome) ==
    IF outcome = "raise" THEN [raised |-> TRUE, response |-> _json(0, "")]
    ELSE [raised |-> FALSE, response |-> _json(200, "")]

\* The try/except of handle_request around a branch: the handler's result as a
\* 200, its exception as a 500 carrying str(e).
router_barrier(outcome) ==
    IF outcome = "raise" THEN [raised |-> FALSE, response |-> _json(500, "exception")]
    ELSE [raised |-> FALSE, response |-> _json(200, "")]

RequestIdle ==
    [pc |-> "idle", path |-> "", method |-> "", body |-> "empty", route |-> <<>>,
     handler_ran |-> FALSE, outcome |-> "none", response |-> _json(0, ""), requests |-> 0]

\* Default.fetch -> handle_request(request, env): the path is matched; /health
\* and the 404 answer at once, a branch with a body awaits _body, the others
\* call their handler.
Request(path, method, body) ==
    /\ req.pc \in {"idle", "responded"}
    /\ req.requests < MaxRequests
    /\ LET route == route_of(path, method)
           f == [RequestIdle EXCEPT !.path = path, !.method = method, !.body = body,
                                    !.route = route, !.requests = req.requests + 1]
       IN  req' = IF path = "/health"
                  THEN [f EXCEPT !.pc = "responded", !.response = _json(200, "")]
                  ELSE IF route = <<>>
                  THEN [f EXCEPT !.pc = "responded", !.response = _json(404, "Not found")]
                  ELSE IF route[1].body THEN [f EXCEPT !.pc = "body"]
                  ELSE [f EXCEPT !.pc = "handler", !.handler_ran = TRUE]
    /\ UNCHANGED <<now, faults, collector_vars, tr, disp, sync, llm, aux_vars>>

\* _body returns: the branch reads its arguments with body.get (which raises on
\* a body that is not a dict, caught as a 500) and calls its handler.
ReadBody ==
    /\ req.pc = "body"
    /\ req' = IF _body(req.body) = "list"
              THEN [req EXCEPT !.pc = "responded", !.outcome = "raise",
                               !.response = router_barrier("raise").response]
              ELSE [req EXCEPT !.pc = "handler", !.handler_ran = TRUE]
    /\ UNCHANGED <<now, faults, collector_vars, tr, disp, sync, llm, aux_vars>>

\* The handler returns or raises: the response is built.
HandlerEnds ==
    /\ req.pc = "handler"
    /\ \E outcome \in {"ok", "raise"} :
        LET b == router_barrier(outcome)
        IN  req' = [req EXCEPT !.pc = IF b.raised THEN "raised" ELSE "responded",
                               !.outcome = outcome, !.response = b.response]
    /\ UNCHANGED <<now, faults, collector_vars, tr, disp, sync, llm, aux_vars>>

\* ----------------------------------------------------------- feed ranker
\* WEIGHTS of feed_ranker.py; scores are kept in hundredths (round(score, 2)).
WEIGHT_FOLLOWED_SOURCE == 50
WEIGHT_FOLLOWED_CATEGORY == 30
WEIGHT_RECENCY == 25
WEIGHT_SOURCE_QUALITY == 20
WEIGHT_DIVERSITY == 10

\* _recency_score in hundredths: 0.3 for a missing or unparseable date.
RECENCY_UNKNOWN == 30

\* source_quality_score defaults to 0.5.
SOURCE_QUALITY_DEFAULT == 50

\* The preferences of the requests the model ranks.
RankPrefs == [followed_sources |-> {"Herald"}, followed_categories |-> {"politics"}]

\* The weighted sum of _rank_numpy / _rank_loop for one article, in hundredths;
\* the articles carry no author, country, interest or engagement signal.
raw_score(a, prefs) ==
      (IF a.source \in prefs.followed_sources THEN 100 ELSE 0) * WEIGHT_FOLLOWED_SOURCE
    + (IF a.category_id \in prefs.followed_categories THEN 100 ELSE 0)
          * WEIGHT_FOLLOWED_CATEGORY
    + a.recency * WEIGHT_RECENCY
    + SOURCE_QUALITY_DEFAULT * WEIGHT_SOURCE_QUALITY

\* articles[idx].get("category_id", "unknown"); "" stands for a missing field.
category_of(a) == IF a.category_id = "" THEN "unknown" ELSE a.category_id

\* A penalty that does not grow with the number of repeats.
diversity_flat(count) == IF count > 0 THEN 0 - 100 * WEIGHT_DIVERSITY ELSE 0

\* scores[idx] += WEIGHTS["diversity"] * count, in hundredths.
diversity_penalty(count) == 0 - 100 * WEIGHT_DIVERSITY * count

\* np.argsort(-scores) / result.sort(reverse=True): positions by raw score
\* descending, equal scores in input order.
sorted_indices(arts, prefs) ==
    SortSeq([k \in 1..Len(arts) |-> k],
            LAMBDA i, j : \/ raw_score(arts[i], prefs) > raw_score(arts[j], prefs)
                          \/ /\ raw_score(arts[i], prefs) = raw_score(arts[j], prefs)
                             /\ i < j)

\* The diversity pass: walking sorted_indices, an article whose category was
\* seen count times before gets the penalty for count.
diversity_pass(arts, prefs) ==
    LET order == sorted_indices(arts, prefs)
        W[p \in 0..Len(order)] ==
            IF p = 0 THEN [scores |-> [k \in 1..Len(arts) |-> raw_score(arts[k], prefs)],
                           counts |-> [c \in {category_of(arts[k]) : k \in 1..Len(arts)} |-> 0]]
            ELSE LET q == W[p - 1]
                     idx == order[p]
                     cat == category_of(arts[idx])
                     count == q.counts[cat]
                 IN  [scores |-> IF count > 0
                                 THEN [q.scores EXCEPT ![idx] = @ + diversity_penalty(count)]
                                 ELSE q.scores,
                      counts |-> [q.counts EXCEPT ![cat] = count + 1]]
    IN  W[Len(order)].scores

\* rank_feed: no article gives no result; otherwise the scored articles, sorted
\* by score descending (equal scores in input order).
rank_feed(arts, prefs) ==
    IF arts = <<>> THEN <<>>
    ELSE LET scores == diversity_pass(arts, prefs)
             scored == [k \in 1..Len(arts) |->
                          [id |-> arts[k].id, category |-> category_of(arts[k]),
                           raw |-> raw_score(arts[k], prefs), score |-> scores[k]]]
         IN  SortSeq(scored, LAMBDA a, b : \/ a.score > b.score
                                           \/ a.score = b.score /\ a.id < b.id)

\* The weighted sum before any rounding, in thousandths.
exact_score(a, prefs) == raw_score(a, prefs) * 10 + a.fine

\* round(x, 2) of a score in thousandths, in hundredths.
round2(x) == (x + 5) \div 10

\* What np.argsort(-scores) may return: the positions by exact score
\* descending, equal scores in any order (the default sort is not stable).
argsort_desc(arts, prefs) ==
    {order \in [1..Len(arts) -> 1..Len(arts)] :
        /\ \A i, j \in 1..Len(arts) : i # j => order[i] # order[j]
        /\ \A i \in 1..Len(arts) - 1 :
              exact_score(arts[order[i]], prefs) >= exact_score(arts[order[i + 1]], prefs)}

\* _rank_numpy: the exact scores, penalised along order, each rounded to 2
\* decimals at the end.
_rank_numpy(arts, prefs, order) ==
    LET W[p \in 0..Len(order)] ==
            IF p = 0 THEN [scores |-> [k \in 1..Len(arts) |-> exact_score(arts[k], prefs)],
                           counts |-> [c \in {category_of(arts[k]) : k \in 1..Len(arts)} |-> 0]]
            ELSE LET q == W[p - 1]
                     idx == order[p]
                     cat == category_of(arts[idx])
                     count == q.counts[cat]
                 IN  [scores |-> IF count > 0
                                 THEN [q.scores EXCEPT
                                          ![idx] = @ + 10 * diversity_penalty(count)]
                                 ELSE q.scores,
                      counts |-> [q.counts EXCEPT ![cat] = count + 1]]
    IN  [k \in 1..Len(arts) |-> round2(W[Len(order)].scores[k])]

\* _rank_loop: each score rounded to 2 decimals, then the diversity pass over
\* the rounded scores in descending order (equal scores in input order).
_rank_loop(arts, prefs) == diversity_pass(arts, prefs)

RankIdle ==
    [pc |-> "idle", articles |-> <<>>, result |-> <<>>,
     by_loop |-> <<>>, by_numpy |-> <<>>]

\* _rank_loop(articles, prefs) returns its scores.
RankLoop ==
    /\ rk.pc = "paths"
    /\ rk.by_loop = <<>>
    /\ rk' = [rk EXCEPT !.by_loop = _rank_loop(rk.articles, RankPrefs)]
    /\ UNCHANGED <<now, faults, collector_vars, service_vars, kw, se, hm, ps, en>>

\* _rank_numpy(articles, prefs) returns its scores.
RankNumpy ==
    /\ rk.pc = "paths"
    /\ rk.by_numpy = <<>>
    /\ \E order \in argsort_desc(rk.articles, RankPrefs) :
          rk' = [rk EXCEPT !.by_numpy = _rank_numpy(rk.articles, RankPrefs, order)]
    /\ UNCHANGED <<now, faults, collector_vars, service_vars, kw, se, hm, ps, en>>

\* rank_feed(articles, preferences) returns (it has no await).
RankFeed ==
    /\ rk.pc = "called"
    /\ rk' = [rk EXCEPT !.pc = "returned", !.result = rank_feed(rk.articles, RankPrefs)]
    /\ UNCHANGED <<now, faults, collector_vars, service_vars, kw, se, hm, ps, en>>

\* ----------------------------------------------------------- keyword extractor
\* extract_keywords returns extracted[:8]; the fallback scans db_keywords[:20];
\* _load_keywords reads at most 200 keywords.
KW_MAX == 8
KW_FALLBACK_SCAN == 20
KW_LOAD_LIMIT == 200
\* Confidences are kept in hundredths: the threshold 0.5 and the fallback's 0.7.
KW_MIN_CONFIDENCE == 50
KW_FALLBACK_CONFIDENCE == 70

\* A keyword text: the word and whether it is written with capitals.
Text(w, up) == [w |-> w, up |-> up]

\* str.lower()
lower(t) == [t EXCEPT !.up = FALSE]

\* A document of the keywords collection.
Keyword(name) == [name |-> name, category_id |-> "general"]

\* MongoDBClient.find("keywords", {"enabled": True}, sort={"usage_count": -1},
\* limit=200): {} (no documents) when the RPC fails.
find_keywords(ok, docs, usage) ==
    IF ~ok THEN <<>>
    ELSE Take(SortSeq(docs, LAMBDA a, b : usage[a.name] > usage[b.name]), KW_LOAD_LIMIT)

\* _find_db_keyword: the first keyword whose lowered name equals the lowered
\* text, as <<keyword>>; <<>> for None.
_find_db_keyword(keyword, db_keywords) ==
    LET hits == SelectSeq(db_keywords, LAMBDA d : lower(d.name) = lower(keyword))
    IN  IF hits = <<>> THEN <<>> ELSE <<hits[1]>>

\* confidence > 0.5
accepts(confidence) == confidence > KW_MIN_CONFIDENCE

\* The loop over parsed["keywords"]: a proposal with a dictionary match and an
\* accepted confidence is appended with the text the LLM wrote.
llm_extracted(proposals, db_keywords) ==
    LET kept == SelectSeq(proposals,
                    LAMBDA q : /\ _find_db_keyword(q.keyword, db_keywords) # <<>>
                               /\ accepts(q.confidence))
    IN  [k \in 1..Len(kept) |->
            [keyword |-> kept[k].keyword, confidence |-> kept[k].confidence,
             category |-> _find_db_keyword(kept[k].keyword, db_keywords)[1].category_id,
             by |-> "llm"]]

\* The fallback loop: the first 8 of db_keywords[:20] whose lowered name occurs
\* in the lowered title and content (words: the lowered words of the text).
text_extracted(db_keywords, words) ==
    LET scanned == Take(db_keywords, KW_FALLBACK_SCAN)
        hits == SelectSeq(scanned, LAMBDA d : lower(d.name) \in words)
    IN  [k \in 1..Min(Len(hits), KW_MAX) |->
            [keyword |-> hits[k].name, confidence |-> KW_FALLBACK_CONFIDENCE,
             category |-> hits[k].category_id, by |-> "text"]]

\* MongoDBClient.update_one("keywords", {"name": name}, {"$inc": {"usage_count": 1}}):
\* the document with exactly this name, if any; nothing when the RPC fails.
inc_usage(ok, usage, name) ==
    IF ok /\ name \in DOMAIN usage THEN [usage EXCEPT ![name] = @ + 1] ELSE usage

KeywordFrameIdle ==
    [pc |-> "idle", long_content |-> FALSE, words |-> {}, db_keywords |-> <<>>,
     extracted |-> <<>>, i |-> 0, usage0 |-> <<>>, rpc_failed |-> FALSE,
     result |-> <<>>]

KeywordIdle ==
    [docs |-> <<>>, usage |-> <<>>, d1_docs |-> <<>>, calls |-> 0, f |-> KeywordFrameIdle]

\* The frame once the extraction is over: the usage updates start when something
\* was extracted, otherwise extract_keywords returns.
kw_after_extraction(f, extracted) ==
    IF extracted # <<>>
    THEN [f EXCEPT !.pc = "update", !.extracted = extracted, !.i = 1]
    ELSE [f EXCEPT !.pc = "returned", !.extracted = extracted, !.result = <<>>]

\* extract_keywords(title, content, env=env) is invoked (POST /keywords/extract):
\* short content returns no keyword, otherwise the dictionary load is issued.
ExtractStart(long_content, words) ==
    /\ kw.f.pc \in {"idle", "returned"}
    /\ kw.calls < MaxExtracts
    /\ kw' = [kw EXCEPT
            !.calls = @ + 1,
            !.f = IF long_content
                  THEN [KeywordFrameIdle EXCEPT
                          !.pc = "load", !.long_content = TRUE, !.words = words,
                          !.usage0 = kw.usage]
                  ELSE [KeywordFrameIdle EXCEPT !.pc = "returned", !.usage0 = kw.usage]]
    /\ UNCHANGED <<now, faults, collector_vars, service_vars, rk, se, hm, ps, en>>

\* _load_keywords is answered: the primary store's keywords, or, when it gave
\* none, the edge cache's; with no keyword at all extract_keywords returns [],
\* otherwise the LLM call is issued.
ExtractLoad ==
    /\ kw.f.pc = "load"
    /\ \E ok \in StoreOutcomes :
        LET primary == find_keywords(ok, kw.docs, kw.usage)
            db_keywords == IF primary # <<>> THEN primary ELSE kw.d1_docs
        IN  kw' = [kw EXCEPT !.f =
                IF db_keywords = <<>>
                THEN [kw.f EXCEPT !.pc = "returned", !.result = <<>>]
                ELSE [kw.f EXCEPT !.pc = "llm", !.db_keywords = db_keywords]]
    /\ UNCHANGED <<now, faults, collector_vars, service_vars, rk, se, hm, ps, en>>

\* client.extract_json is answered with None (parsed = FALSE) or with a list of
\* proposals; when nothing was accepted the text fallback runs.
ExtractAnswer(parsed, proposals) ==
    /\ kw.f.pc = "llm"
    /\ LET from_llm == IF parsed THEN llm_extracted(proposals, kw.f.db_keywords) ELSE <<>>
           extracted == IF from_llm # <<>> THEN from_llm
                        ELSE text_extracted(kw.f.db_keywords, kw.f.words)
       IN  kw' = [kw EXCEPT !.f = kw_after_extraction(kw.f, extracted)]
    /\ UNCHANGED <<now, faults, collector_vars, service_vars, rk, se, hm, ps, en>>

\* One update_one of _update_keyword_usage is answered; after the last one
\* extract_keywords returns extracted[:8].
ExtractUpdate ==
    /\ kw.f.pc = "update"
    /\ \E ok \in StoreOutcomes :
        LET f == kw.f
            g == [f EXCEPT !.rpc_failed = @ \/ ~ok]
        IN  kw' = [kw EXCEPT
                !.usage = inc_usage(ok, kw.usage, f.extracted[f.i].keyword),
                !.f = IF f.i < Len(f.extracted) THEN [g EXCEPT !.i = f.i + 1]
                      ELSE [g EXCEPT !.pc = "returned",
                                     !.result = Take(f.extracted, KW_MAX)]]
    /\ UNCHANGED <<now, faults, collector_vars, service_vars, rk, se, hm, ps, en>>

\* ----------------------------------------------------------- semantic search
\* opts.get("limit", 20)
SEARCH_DEFAULT_LIMIT == 20

\* env.VECTORIZE_INDEX.query(embedding, {"topK": limit * 2}): the topK nearest
\* vectors as [id, score], nearest first.
vector_query(scores, limit) ==
    LET ids == SortSeq(IdSeq(DOMAIN scores),
                       LAMBDA a, b : \/ scores[a] > scores[b]
                                     \/ scores[a] = scores[b] /\ a < b)
    IN  Take([k \in 1..Len(ids) |-> [id |-> ids[k], score |-> scores[ids[k]]]], limit * 2)

\* The filter _fetch_articles and _keyword_search put on category ("" for none).
passes(doc, category) == category = "" \/ doc.category_id = category

\* db.find("articles", {"_id": {"$in": ids}, ...}, limit=limit), and the same
\* SELECT ... WHERE id IN (...) LIMIT limit on the edge cache: the first limit
\* matching rows in the store's own order.
fetch_rows(docs, ids, category, limit) ==
    Take(SelectSeq(docs, LAMBDA d : d.id \in ids /\ passes(d, category)), limit)

\* _attach_scores: each row gets its match's score (0 when it has none); rows
\* sorted by score descending (equal scores in row order), cut to limit.
_attach_scores(rows, matches, limit) ==
    LET score_of(id) ==
            IF \E m \in 1..Len(matches) : matches[m].id = id
            THEN matches[CHOOSE m \in 1..Len(matches) : matches[m].id = id].score
            ELSE 0
        idx == SortSeq([k \in 1..Len(rows) |-> k],
                       LAMBDA a, b : \/ score_of(rows[a].id) > score_of(rows[b].id)
                                     \/ /\ score_of(rows[a].id) = score_of(rows[b].id)
                                        /\ a < b)
    IN  Take([k \in 1..Len(rows) |-> [id |-> rows[idx[k]].id,
                                     score |-> score_of(rows[idx[k]].id)]], limit)

\* _keyword_search: rows whose title or description contains the query, filtered,
\* ORDER BY published_at DESC LIMIT limit, each with score 1.0 (100).
_keyword_search(d1_docs, category, limit) ==
    LET hits == SortSeq(SelectSeq(d1_docs, LAMBDA d : d.like /\ passes(d, category)),
                        LAMBDA a, b : a.published_at > b.published_at)
    IN  Take([k \in 1..Len(hits) |-> [id |-> hits[k].id, score |-> 100]], limit)

SearchFrameIdle ==
    [pc |-> "idle", query |-> "", env |-> FALSE, limit |-> 0, category |-> "",
     matches |-> <<>>, served |-> <<>>, results |-> <<>>, method |-> "",
     embedded |-> FALSE, vector |-> "none"]

SearchIdle ==
    [docs |-> <<>>, d1_docs |-> <<>>, scores |-> <<>>, calls |-> 0, f |-> SearchFrameIdle]

\* The frame when semantic_search returns.
search_return(f, results, method) ==
    [f EXCEPT !.pc = "returned", !.results = results, !.method = method]

\* semantic_search(query, options, env) is invoked (POST /search/query): options
\* that are neither empty nor a dict make opts.get raise; an empty query or a
\* missing env returns method "none"; otherwise the embedding call is issued.
SearchStart(query, options, limit, category, env) ==
    /\ se.f.pc \in {"idle", "returned", "raised"}
    /\ se.calls < MaxSearches
    /\ LET f == [SearchFrameIdle EXCEPT
                    !.query = query, !.env = env,
                    !.limit = IF options = "dict" THEN limit ELSE SEARCH_DEFAULT_LIMIT,
                    !.category = IF options = "dict" THEN category ELSE ""]
       IN  se' = [se EXCEPT
               !.calls = @ + 1,
               !.f = IF options = "not_dict"
                     THEN [SearchFrameIdle EXCEPT !.pc = "raised", !.query = query,
                                                  !.env = env]
                     ELSE IF query = "" \/ ~env
                     THEN search_return(f, <<>>, "none")
                     ELSE [f EXCEPT !.pc = "embed"]]
    /\ UNCHANGED <<now, faults, collector_vars, service_vars, rk, kw, hm, ps, en>>

\* get_embedding is answered: with an embedding the vector query is issued,
\* without one (None) the LIKE query.
SearchEmbed ==
    /\ se.f.pc = "embed"
    /\ \E ok \in (IF "ai" \in faults THEN {TRUE, FALSE} ELSE {TRUE}) :
        se' = [se EXCEPT !.f = IF ok THEN [se.f EXCEPT !.pc = "vector", !.embedded = TRUE]
                                ELSE [se.f EXCEPT !.pc = "like"]]
    /\ UNCHANGED <<now, faults, collector_vars, service_vars, rk, kw, hm, ps, en>>

\* The vector query is answered: with matches the article fetch is issued;
\* with none, or when it raised, the LIKE query.
SearchVector ==
    /\ se.f.pc = "vector"
    /\ \E ok \in (IF "vector" \in faults THEN {TRUE, FALSE} ELSE {TRUE}) :
        LET matches == IF ok THEN vector_query(se.scores, se.f.limit) ELSE <<>>
        IN  se' = [se EXCEPT !.f =
                IF matches # <<>>
                THEN [se.f EXCEPT !.pc = "fetch", !.matches = matches, !.vector = "matches"]
                ELSE [se.f EXCEPT !.pc = "like",
                                  !.vector = IF ok THEN "empty" ELSE "failed"]]
    /\ UNCHANGED <<now, faults, collector_vars, service_vars, rk, kw, hm, ps, en>>

\* _fetch_articles: the primary store's find is answered; rows are scored and
\* returned, no row (or a failed RPC) issues the edge cache query.
SearchFetch ==
    /\ se.f.pc = "fetch"
    /\ \E ok \in StoreOutcomes :
        LET f == se.f
            ids == {f.matches[m].id : m \in 1..Len(f.matches)}
            rows == IF ok THEN fetch_rows(se.docs, ids, f.category, f.limit) ELSE <<>>
        IN  se' = [se EXCEPT !.f =
                IF rows # <<>>
                THEN search_return([f EXCEPT !.served = se.docs],
                                   _attach_scores(rows, f.matches, f.limit), "semantic")
                ELSE [f EXCEPT !.pc = "fetch_d1"]]
    /\ UNCHANGED <<now, faults, collector_vars, service_vars, rk, kw, hm, ps, en>>

\* _fetch_articles: the edge cache query is answered (rows, or [] when it
\* raised); semantic_search returns with method "semantic".
SearchFetchD1 ==
    /\ se.f.pc = "fetch_d1"
    /\ \E ok \in (IF "d1" \in faults THEN {TRUE, FALSE} ELSE {TRUE}) :
        LET f == se.f
            ids == {f.matches[m].id : m \in 1..Len(f.matches)}
            rows == IF ok THEN fetch_rows(se.d1_docs, ids, f.category, f.limit) ELSE <<>>
        IN  se' = [se EXCEPT !.f =
                search_return([f EXCEPT !.served = IF ok THEN se.d1_docs ELSE <<>>],
                              _attach_scores(rows, f.matches, f.limit), "semantic")]
    /\ UNCHANGED <<now, faults, collector_vars, service_vars, rk, kw, hm, ps, en>>

\* _keyword_search is answered (rows, or [] when it raised); semantic_search
\* returns with method "keyword".
SearchLike ==
    /\ se.f.pc = "like"
    /\ \E ok \in (IF "d1" \in faults THEN {TRUE, FALSE} ELSE {TRUE}) :
        se' = [se EXCEPT !.f =
            search_return(se.f,
                          IF ok THEN _keyword_search(se.d1_docs, se.f.category, se.f.limit)
                          ELSE <<>>,
                          "keyword")]
    /\ UNCHANGED <<now, faults, collector_vars, service_vars, rk, kw, hm, ps, en>>

\* ----------------------------------------------------------- health manager
\* Hundredths of the default quality (0.5) and the volume that earns the full
\* volume score (count / 50).
QUALITY_DEFAULT == 50
QUALITY_FULL_VOLUME == 50

\* _health_rank: higher is worse, 0 for any other status.
_health_rank(status) ==
    CASE status = "degraded" -> 1
      [] status = "failing" -> 2
      [] status = "critical" -> 3
      [] OTHER -> 0

\* _compute_source_quality on the aggregate's answer: no row (or a failed RPC)
\* gives the defaults; a row [avg_quality, count] of articles without
\* engagement gives avg_quality * 0.6 + (log10(2) / 3) * 0.3 + min(count / 50,
\* 1) * 0.1, rounded to hundredths (computed in ten-thousandths).
_compute_source_quality(rows) ==
    IF rows = <<>>
    THEN [score |-> QUALITY_DEFAULT, avg_quality |-> QUALITY_DEFAULT,
          avg_engagement |-> 0, article_count |-> 0]
    ELSE LET r == rows[1]
             avg_quality == IF r.avg_quality = 0 THEN QUALITY_DEFAULT ELSE r.avg_quality
             vol == IF r.count >= QUALITY_FULL_VOLUME THEN 1000
                    ELSE (r.count * 1000) \div QUALITY_FULL_VOLUME
         IN  [score |-> (avg_quality * 60 + 301 + vol + 50) \div 100,
              avg_quality |-> avg_quality, avg_engagement |-> 0,
              article_count |-> r.count]

\* The update check_source_health builds for one source of its snapshot.
health_update(source, quality) ==
    [source_id |-> source.id,
     failures |-> source.consecutive_failures,
     health_status |-> classify_health(source.consecutive_failures),
     source_quality_score |-> quality.score,
     avg_article_quality |-> quality.avg_quality,
     avg_engagement |-> quality.avg_engagement,
     article_count_7d |-> quality.article_count]

\* An update that stores the audited fields as the whole document.
health_replace(source, update) ==
    [Source(source.id, source.country_id, 0, NULL, NULL) EXCEPT
        !.health_status = update.health_status,
        !.source_quality_score = update.source_quality_score,
        !.avg_article_quality = update.avg_article_quality,
        !.avg_engagement = update.avg_engagement,
        !.article_count_7d = update.article_count_7d]

\* An update that stores the quality fields and leaves the status as it was.
health_set_quality(source, update) ==
    [source EXCEPT
        !.source_quality_score = update.source_quality_score,
        !.avg_article_quality = update.avg_article_quality,
        !.avg_engagement = update.avg_engagement,
        !.article_count_7d = update.article_count_7d]

\* update_one("rss_sources", {"_id": id}, {"$set": update}) on the document.
health_set(source, update) ==
    [source EXCEPT
        !.health_status = update.health_status,
        !.source_quality_score = update.source_quality_score,
        !.avg_article_quality = update.avg_article_quality,
        !.avg_engagement = update.avg_engagement,
        !.article_count_7d = update.article_count_7d]

\* The summary check_source_health returns for its snapshot.
health_summary(sources, alerts) ==
    LET count(class) ==
            Cardinality({k \in 1..Len(sources) :
                            classify_health(sources[k].consecutive_failures) = class})
    IN  [sources |-> Len(sources), alerts |-> alerts,
         healthy |-> count("healthy"), degraded |-> count("degraded"),
         failing |-> count("failing"), critical |-> count("critical")]

HealthIdle ==
    [pc |-> "idle", sources |-> <<>>, i |-> 0, updates |-> <<>>, alerts |-> <<>>,
     k |-> 0, written |-> {}, calls |-> 0, prev_alerts |-> <<>>, prev_written |-> {},
     result |-> health_summary(<<>>, <<>>)]

\* check_source_health is invoked (cron "0 */6 * * *"): the find of the enabled
\* sources is issued. prev_alerts and prev_written keep the alerts and the served
\* updates of the invocation before.
HealthStart ==
    /\ hm.pc \in {"idle", "returned"}
    /\ hm.calls < MaxAudits
    /\ hm' = [HealthIdle EXCEPT !.pc = "find", !.calls = hm.calls + 1,
                              !.prev_alerts = hm.alerts,
                              !.prev_written = hm.written]
    /\ UNCHANGED <<now, faults, collector_vars, service_vars, rk, kw, se, ps, en>>

\* The find is answered: no source (or a failed RPC) returns {"sources": 0,
\* "alerts": []}; otherwise the first source's quality aggregate is issued.
HealthFind ==
    /\ hm.pc = "find"
    /\ \E ok \in StoreOutcomes :
        LET ids == IdSeq({id \in DOMAIN rss_sources : rss_sources[id].enabled})
            sources == IF ok
                       THEN Take([k \in 1..Len(ids) |-> rss_sources[ids[k]]], SOURCE_LIMIT)
                       ELSE <<>>
        IN  hm' = IF sources = <<>>
                  THEN [hm EXCEPT !.pc = "returned"]
                  ELSE [hm EXCEPT !.pc = "quality", !.sources = sources, !.i = 1]
    /\ UNCHANGED <<now, faults, collector_vars, service_vars, rk, kw, se, ps, en>>

\* The quality aggregate of source i is answered with rows (none when the RPC
\* failed): its update is queued, an alert is raised when its class is worse
\* than the stored one; after the last source the first update_one is issued.
HealthQuality(rows) ==
    /\ hm.pc = "quality"
    /\ LET source == hm.sources[hm.i]
           update == health_update(source, _compute_source_quality(rows))
           prev_health == IF source.health_status = "" THEN "healthy"
                          ELSE source.health_status
           alerts == IF _health_rank(update.health_status) > _health_rank(prev_health)
                     THEN Append(hm.alerts, [source_id |-> source.id,
                                             previous |-> prev_health,
                                             current |-> update.health_status,
                                             consecutive_failures |-> update.failures,
                                             quality_score |-> update.source_quality_score])
                     ELSE hm.alerts
           g == [hm EXCEPT !.updates = Append(@, update), !.alerts = alerts]
       IN  hm' = IF hm.i = Len(hm.sources)
                 THEN [g EXCEPT !.pc = "update", !.k = 1]
                 ELSE [g EXCEPT !.i = @ + 1]
    /\ UNCHANGED <<now, faults, collector_vars, service_vars, rk, kw, se, ps, en>>

\* update_one of update k is answered: served, the document gets the five
\* audited fields; after the last update the summary is returned.
HealthUpdate ==
    /\ hm.pc = "update"
    /\ \E ok \in StoreOutcomes :
        LET update == hm.updates[hm.k]
            id == update.source_id
            g == [hm EXCEPT !.written = IF ok THEN @ \cup {id} ELSE @]
        IN  /\ rss_sources' =
                IF ok /\ id \in DOMAIN rss_sources
                THEN [rss_sources EXCEPT ![id] = health_set(@, update)]
                ELSE rss_sources
            /\ hm' = IF hm.k = Len(hm.updates)
                     THEN [g EXCEPT !.pc = "returned",
                                    !.result = health_summary(hm.sources, hm.alerts)]
                     ELSE [g EXCEPT !.k = @ + 1]
    /\ UNCHANGED <<now, faults, articles, feeds, run, invocations, attempt, cl,
                   service_vars, rk, kw, se, ps, en>>

\* ---------------------------------------------------------------- feed parser
\* slug[:80]
SLUG_MAX == 80

\* Characters by class: "a" an ASCII lower-case letter, "A" an upper-case one,
\* "7" a digit, "e_acute" / "E_acute" a letter outside ASCII, and the
\* characters "_", "-", " " and "!" themselves.
Chars == {"a", "A", "7", "_", "-", " ", "!", "e_acute", "E_acute"}

\* str.lower() of one character.
lower_char(c) ==
    CASE c = "A" -> "a"
      [] c = "E_acute" -> "e_acute"
      [] OTHER -> c

\* \w of a str pattern: letters of any script, digits and the underscore.
is_word(c) == c \in {"a", "A", "7", "_", "e_acute", "E_acute"}

\* re.sub(pattern, "-", s) for a pattern matching the runs of the characters
\* in_run holds: every maximal run becomes one "-".
squeeze(s, in_run) ==
    LET keep == SelectSeq([i \in 1..Len(s) |-> i],
                          LAMBDA i : ~(s[i] \in in_run /\ i > 1 /\ s[i - 1] \in in_run))
    IN  [k \in 1..Len(keep) |-> IF s[keep[k]] \in in_run THEN "-" ELSE s[keep[k]]]

\* str.strip("-")
strip_hyphens(s) ==
    LET inner == {i \in 1..Len(s) : s[i] # "-"}
    IN  IF inner = {} THEN <<>>
        ELSE SubSeq(s, CHOOSE i \in inner : \A j \in inner : i <= j,
                       CHOOSE i \in inner : \A j \in inner : i >= j)

\* The last two steps of _generate_slug: slug.strip("-"), then slug[:80].
slug_cut(s) == Take(strip_hyphens(s), SLUG_MAX)

\* _generate_slug: lower; drop what is not \w, \s or "-"; runs of whitespace to
\* "-"; runs of "-" to "-"; strip "-"; the first 80 characters.
_generate_slug(title) ==
    LET lowered == [i \in 1..Len(title) |-> lower_char(title[i])]
        kept == SelectSeq(lowered, LAMBDA c : is_word(c) \/ c \in {" ", "-"})
    IN  slug_cut(squeeze(squeeze(kept, {" "}), {"-"}))

\* An image URL by what the parser looks at: its scheme ("http", "https", "//"
\* for protocol-relative, "" for a relative path), and whether it names a
\* domain of AD_DOMAINS. NoUrl is the empty string.
Url(scheme, ad) == [scheme |-> scheme, ad |-> ad, empty |-> FALSE]
NoUrl == [scheme |-> "", ad |-> FALSE, empty |-> TRUE]

\* _is_valid_image_url: not empty, starts with http:// or https://, holds no
\* blocked domain.
_is_valid_image_url(url) ==
    /\ ~url.empty
    /\ url.scheme \in {"http", "https"}
    /\ ~url.ad

\* _extract_image_rss: the thumbnail if valid; else the first media:content
\* whose type holds "image" or whose url is valid; else the first enclosure of
\* an image type with a valid url; else the first <img> of the description,
\* protocol-relative promoted to https, if valid; else None (<<>>).
_extract_image_rss(item) ==
    LET thumb == SelectSeq(item.thumbnail, _is_valid_image_url)
        media == SelectSeq(item.media_content,
                           LAMBDA m : m.image_type \/ _is_valid_image_url(m.url))
        enc == SelectSeq(item.enclosure,
                         LAMBDA e : e.image_type /\ _is_valid_image_url(e.url))
        promoted == [k \in 1..Len(item.img) |->
                        IF item.img[k].scheme = "//"
                        THEN [item.img[k] EXCEPT !.scheme = "https"]
                        ELSE item.img[k]]
        img == SelectSeq(promoted, _is_valid_image_url)
    IN  IF thumb # <<>> THEN [url |-> <<thumb[1]>>, by |-> "thumbnail"]
        ELSE IF media # <<>> THEN [url |-> <<media[1].url>>, by |-> "content"]
        ELSE IF enc # <<>> THEN [url |-> <<enc[1].url>>, by |-> "enclosure"]
        ELSE IF img # <<>> THEN [url |-> <<img[1]>>, by |-> "img"]
        ELSE [url |-> <<>>, by |-> ""]

NoItem == [thumbnail |-> <<>>, media_content |-> <<>>, enclosure |-> <<>>, img |-> <<>>]

ParserIdle ==
    [pc |-> "idle", title |-> <<>>, item |-> NoItem, slug |-> <<>>,
     image_url |-> <<>>, by |-> ""]

\* _parse_rss_item on an item with a title and a link: the image and the slug
\* of the article it returns.
ParseItem ==
    /\ ps.pc = "item"
    /\ LET image == _extract_image_rss(ps.item)
       IN  ps' = [ps EXCEPT !.pc = "parsed",
                            !.slug = _generate_slug(ps.title),
                            !.image_url = image.url, !.by = image.by]
    /\ UNCHANGED <<now, faults, collector_vars, service_vars, rk, kw, se, hm, en>>

\* ----------------------------------------------------------------- entry point
\* The requests one isolate serves in a behaviour.
EntryRequests == 1..MaxEntryRequests

\* A request at rest: its kind ("fetch" or "scheduled"), the bindings the
\* runtime hands it, and what get_env() returned to its code (<<>>: not called).
EntryFrameIdle == [pc |-> "idle", kind |-> "", env |-> 0, seen |-> <<>>]

\* The module after import: _env = None (<<>>).
EntryIdle == [_env |-> <<>>, frames |-> [r \in EntryRequests |-> EntryFrameIdle]]

\* get_env()
get_env == en._env

\* Default.fetch up to its await: _env = self.env, then handle_request is
\* awaited.
EntryFetch(r) ==
    /\ en.frames[r].pc = "idle"
    /\ en' = [en EXCEPT !._env = <<en.frames[r].env>>,
                        !.frames[r].pc = "running", !.frames[r].kind = "fetch"]
    /\ UNCHANGED <<now, faults, collector_vars, service_vars, rk, kw, se, hm, ps>>

\* on_scheduled up to its await: _env = env, then handle_scheduled is awaited.
EntryScheduled(r) ==
    /\ en.frames[r].pc = "idle"
    /\ en' = [en EXCEPT !._env = <<en.frames[r].env>>,
                        !.frames[r].pc = "running", !.frames[r].kind = "scheduled"]
    /\ UNCHANGED <<now, faults, collector_vars, service_vars, rk, kw, se, hm, ps>>

\* Code running on behalf of request r, resumed after an await, calls get_env().
EntryGetEnv(r) ==
    /\ en.frames[r].pc = "running"
    /\ en' = [en EXCEPT !.frames[r].pc = "read", !.frames[r].seen = get_env]
    /\ UNCHANGED <<now, faults, collector_vars, service_vars, rk, kw, se, hm, ps>>

\* The handler of request r returns.
EntryReturn(r) ==
    /\ en.frames[r].pc \in {"running", "read"}
    /\ en' = [en EXCEPT !.frames[r].pc = "done"]
    /\ UNCHANGED <<now, faults, collector_vars, service_vars, rk, kw, se, hm, ps>>

\* The ranker, the keyword extractor, the search and the health manager at rest.
AuxIdle ==
    /\ rk = RankIdle
    /\ kw = KeywordIdle
    /\ se = SearchIdle
    /\ hm = HealthIdle
    /\ ps = ParserIdle
    /\ en = EntryIdle

\* Every service at rest.
ServicesIdle ==
    /\ tr = TrendingIdle
    /\ disp = DispatchIdle
    /\ sync = SyncIdle
    /\ llm = LLMIdle
    /\ req = RequestIdle
    /\ AuxIdle

\* ------------------------------------------------------------ specifications
NoAttempt == [last |-> NULL, gap |-> NULL, cf |-> 0]

\* What the two sources' feeds serve: an item repeated inside one feed; the same
\* item syndicated by both sources; a second guid on an already used link.
FeedScenarios ==
    { [id \in {1, 2} |-> IF id = 1 THEN <<ItemA, ItemA>> ELSE <<>>],
      [id \in {1, 2} |-> <<ItemA>>],
      [id \in {1, 2} |-> IF id = 1 THEN <<ItemA, ItemB>> ELSE <<ItemC>>] }

\* Two sources never fetched before, two collector invocations that may overlap,
\* and an environment that fails either the publishers or the store.
Init ==
    /\ now = 0
    /\ faults \in {{"http", "raise"}, {"store"}}
    /\ rss_sources = [id \in {1, 2} |->
                        Source(id, IF id = 1 THEN "ZW" ELSE "KE", 0, NULL, NULL)]
    /\ articles = <<>>
    /\ feeds \in FeedScenarios
    /\ run = [r \in RunIds |-> IdleRun]
    /\ invocations = 0
    /\ attempt = [id \in {1, 2} |-> NoAttempt]
    /\ cl = ClusterIdle
    /\ ServicesIdle

\* The cron period of the collector ("*/15 * * * *").
CRON_MINUTES == 15

\* An invocation is over well within one cron period: the coarse clock moves
\* between invocations.
Tick ==
    /\ \A r \in RunIds : run[r].pc \in {"idle", "done", "raised"}
    /\ TickBy(CRON_MINUTES)

Next ==
    \/ \E r \in RunIds : StartRun(r)
    \/ \E r \in RunIds : LoadSources(r)
    \/ \E r \in RunIds : \E i \in DOMAIN run[r].tasks : TaskFetch(r, i)
    \/ \E r \in RunIds : \E i \in DOMAIN run[r].tasks : TaskFindGuid(r, i)
    \/ \E r \in RunIds : \E i \in DOMAIN run[r].tasks : TaskFindUrl(r, i)
    \/ \E r \in RunIds : \E i \in DOMAIN run[r].tasks : TaskInsert(r, i)
    \/ \E r \in RunIds : GatherDone(r)
    \/ \E r \in RunIds : RecordHealth(r)
    \/ Tick

Spec == Init /\ [][Next]_vars

\* --- admission: one source with any health fields, one invocation at a time ---
\* Minutes since the recorded timestamp: none, and one below, at and above each
\* fetch interval.
EdgeElapsed ==
    {0} \cup UNION {{i - 1, i, i + 1} :
                        i \in {INTERVAL_HEALTHY, INTERVAL_DEGRADED, INTERVAL_FAILING}}

\* The clock reading of the admission specification.
AdmitNow == INTERVAL_FAILING + 1

Stamps == {NULL, BAD} \cup {AdmitNow - e : e \in EdgeElapsed}

InitAdmit ==
    /\ now = AdmitNow
    /\ faults = {"raise"}
    /\ \E cf \in {NULL} \cup 0..MaxCF : \E lsf \in Stamps : \E lfa \in Stamps :
          rss_sources = [id \in {1} |-> Source(id, "ZW", cf, lsf, lfa)]
    /\ articles = <<>>
    /\ feeds = [id \in {1} |-> <<ItemA>>]
    /\ run = [r \in RunIds |-> IdleRun]
    /\ invocations = 0
    /\ attempt = [id \in {1} |-> NoAttempt]
    /\ cl = ClusterIdle
    /\ ServicesIdle

NextAdmit ==
    \/ StartRun(1)
    \/ LoadSources(1)
    \/ \E i \in DOMAIN run[1].tasks : TaskFetch(1, i)
    \/ \E i \in DOMAIN run[1].tasks : TaskFindGuid(1, i)
    \/ \E i \in DOMAIN run[1].tasks : TaskFindUrl(1, i)
    \/ \E i \in DOMAIN run[1].tasks : TaskInsert(1, i)
    \/ GatherDone(1)
    \/ RecordHealth(1)

SpecAdmit == InitAdmit /\ [][NextAdmit]_vars

\* --- cron: the collector fired every 15 minutes on a minute clock --------------
\* The cron trigger is due and has not fired yet.
cron_due == now = CRON_MINUTES * (invocations + 1)

CronStart(r) == cron_due /\ StartRun(r)

\* A minute passes; a due trigger fires first.
CronTick == ~(cron_due /\ invocations < MaxInvocations) /\ TickBy(1)

\* One source, fetched successfully in the previous cron cycle (minute 0) or
\* never; the first trigger of the behaviour is at minute 15.
InitCron ==
    /\ now = CRON_MINUTES
    /\ faults = {"raise"}
    /\ \E last \in {NULL, 0} :
          /\ rss_sources = [id \in {1} |-> Source(id, "ZW", 0, last, last)]
          /\ attempt = [id \in {1} |-> [NoAttempt EXCEPT !.last = last]]
    /\ articles = <<>>
    /\ feeds = [id \in {1} |-> <<ItemA>>]
    /\ run = [r \in RunIds |-> IdleRun]
    /\ invocations = 0
    /\ cl = ClusterIdle
    /\ ServicesIdle

NextCron ==
    \/ \E r \in RunIds : CronStart(r)
    \/ \E r \in RunIds : LoadSources(r)
    \/ \E r \in RunIds : \E i \in DOMAIN run[r].tasks : TaskFetch(r, i)
    \/ \E r \in RunIds : \E i \in DOMAIN run[r].tasks : TaskFindGuid(r, i)
    \/ \E r \in RunIds : \E i \in DOMAIN run[r].tasks : TaskFindUrl(r, i)
    \/ \E r \in RunIds : \E i \in DOMAIN run[r].tasks : TaskInsert(r, i)
    \/ \E r \in RunIds : GatherDone(r)
    \/ \E r \in RunIds : RecordHealth(r)
    \/ CronTick

SpecCron == InitCron /\ [][NextCron]_vars

\* --- batches: more due sources than one batch holds --------------------------
BatchSourceIds == 1..NumBatchSources

InitBatch ==
    /\ now = 0
    /\ faults = {"raise"}
    /\ rss_sources = [id \in BatchSourceIds |-> Source(id, "ZW", 0, NULL, NULL)]
    /\ articles = <<>>
    /\ feeds = [id \in BatchSourceIds |-> IF id = NumBatchSources THEN <<ItemA>> ELSE <<>>]
    /\ run = [r \in RunIds |-> IdleRun]
    /\ invocations = 0
    /\ attempt = [id \in BatchSourceIds |-> NoAttempt]
    /\ cl = ClusterIdle
    /\ ServicesIdle

SpecBatch == InitBatch /\ [][NextAdmit]_vars

\* --- ordering: two batches of sources of several countries and healths --------
\* country_id values of the sources: known countries, an unknown one and a
\* missing one ("").
OrderCountries == <<"XX", "ZW", "MZ", "ZA", "", "KE">>

InitOrder ==
    /\ now = 0
    /\ faults = {}
    /\ \E c \in 0..5 : \E m \in 0..2 :
          rss_sources = [id \in BatchSourceIds |->
              Source(id, OrderCountries[((id + c) % 6) + 1], (id * m) % 4, NULL, NULL)]
    /\ articles = <<>>
    /\ feeds = [id \in BatchSourceIds |-> IF id = NumBatchSources THEN <<ItemA>> ELSE <<>>]
    /\ run = [r \in RunIds |-> IdleRun]
    /\ invocations = 0
    /\ attempt = [id \in BatchSourceIds |-> NoAttempt]
    /\ cl = ClusterIdle
    /\ ServicesIdle

SpecOrder == InitOrder /\ [][NextAdmit]_vars

\* --- clusterer: every small request -----------------------------------------
InitCluster ==
    /\ now = 0
    /\ faults = {}
    /\ rss_sources = <<>>
    /\ articles = <<>>
    /\ feeds = <<>>
    /\ run = [r \in RunIds |-> IdleRun]
    /\ invocations = 0
    /\ attempt = <<>>
    /\ ServicesIdle
    /\ \E n \in 0..MaxClusterArticles :
       \E src \in [1..n -> ClusterSources] :
       \E sim \in [Pairs(n) -> SimLevels] :
       \E method \in {"semantic", "jaccard"} :
       \E mr \in {0, 1, DEFAULT_MAX_RELATED} :
       \E mc \in {0, 1, DEFAULT_MAX_CLUSTERS} :
          cl = [ClusterIdle EXCEPT
                  !.pc = "called",
                  !.articles = [k \in 1..n |-> [id |-> k, source |-> src[k]]],
                  !.sim = sim, !.method = method, !.threshold = DEFAULT_THRESHOLD,
                  !.max_related = mr, !.max_clusters = mc]

NextCluster == ClusterCall

SpecCluster == InitCluster /\ [][NextCluster]_vars

\* --- the services, each on its own ---------------------------------------------
\* The collector and the clusterer at rest on an empty store.
CollectorIdle ==
    /\ rss_sources = <<>>
    /\ articles = <<>>
    /\ feeds = <<>>
    /\ run = [r \in RunIds |-> IdleRun]
    /\ invocations = 0
    /\ attempt = <<>>
    /\ cl = ClusterIdle

\* An article as the collector stored it at time t, from the feed item k.
StoredArticle(item, t) == stamp(parse_rss_feed(<<item>>), t)[1]

\* --- trending: a corpus of up to two articles with one keyword each -------------
\* published_at of an article that leaves the 24-hour window within the first
\* cron period, and of a recent one.
CorpusTimes == {10 - TRENDING_WINDOW, 0 - 60}

CorpusArticle(id, published_at, country_id, keyword) ==
    [id |-> id, published_at |-> published_at, country_id |-> country_id,
     keyword |-> keyword, view_count |-> id - 1]

InitTrending ==
    /\ now = 0
    /\ faults = {}
    /\ CollectorIdle
    /\ disp = DispatchIdle
    /\ sync = SyncIdle
    /\ llm = LLMIdle
    /\ req = RequestIdle
    /\ AuxIdle
    /\ \E n \in 0..MaxCorpus :
       \E pub \in [1..n -> CorpusTimes] :
       \E country \in [1..n -> {"ZW", "KE", "BW"}] :
       \E word \in [1..n -> {1, 2}] :
          tr = [TrendingIdle EXCEPT
                  !.corpus = {CorpusArticle(k, pub[k], country[k], word[k]) : k \in 1..n}]

\* Time passes between the calls.
TrendingTick ==
    /\ tr.refresh.pc \in {"idle", "done"}
    /\ tr.get.pc \in {"idle", "returned"}
    /\ TickBy(CRON_MINUTES)

NextTrending ==
    \/ RefreshStart
    \/ RefreshCompute
    \/ RefreshPut
    \/ \E country_id \in {"", "ZW", "KE", "BW"} : GetStart(country_id)
    \/ GetRead
    \/ GetCompute
    \/ TrendingTick

SpecTrending == InitTrending /\ [][NextTrending]_vars

\* --- the cron dispatcher ---------------------------------------------------------
InitDispatch ==
    /\ now = 0
    /\ faults = {}
    /\ CollectorIdle
    /\ ServicesIdle

NextDispatch ==
    \/ \E cron \in CronPatterns : Scheduled(cron)
    \/ PipelineEnds

SpecDispatch == InitDispatch /\ [][NextDispatch]_vars

\* --- the LLM client --------------------------------------------------------------
NextLLM ==
    \/ \E op \in {"complete", "extract_json"} : LLMCall(op)
    \/ LLMAnswer

SpecLLM == InitDispatch /\ [][NextLLM]_vars

\* --- the router ------------------------------------------------------------------
NextRouter ==
    \/ \E path \in RequestPaths : \E method \in RequestMethods :
       \E body \in RequestBodies : Request(path, method, body)
    \/ ReadBody
    \/ HandlerEnds

SpecRouter == InitDispatch /\ [][NextRouter]_vars

\* --- edge cache sync: a burst of articles stored at minute 0 ---------------------
BurstArticle(k) == StoredArticle([rss_guid |-> k, original_url |-> k, published_at |-> k], 0)

InitSync ==
    /\ now = 0
    /\ faults = {}
    /\ rss_sources = <<>>
    /\ feeds = <<>>
    /\ run = [r \in RunIds |-> IdleRun]
    /\ invocations = 0
    /\ attempt = <<>>
    /\ cl = ClusterIdle
    /\ tr = TrendingIdle
    /\ disp = DispatchIdle
    /\ llm = LLMIdle
    /\ req = RequestIdle
    /\ AuxIdle
    /\ \E n \in {1, SYNC_ARTICLE_LIMIT, SYNC_ARTICLE_LIMIT + 1} :
          articles = [k \in 1..n |-> BurstArticle(k)]
    /\ sync = [SyncIdle EXCEPT !.keywords = <<1>>, !.categories = <<1>>]

\* The hourly trigger is due and has not fired yet.
sync_due == now = SYNC_PERIOD * (sync.syncs + 1)

\* The cron fires sync_edge_cache on the hour.
SyncCron == sync_due /\ SyncStart

\* The hour between two triggers passes.
SyncHour == ~sync_due /\ SyncTick

NextSyncCron ==
    \/ SyncCron
    \/ SyncFind
    \/ SyncUpsert
    \/ SyncHour

SpecSync == InitSync /\ [][NextSyncCron]_vars

NextSync ==
    \/ SyncStart
    \/ SyncFind
    \/ SyncUpsert
    \/ SyncTick

\* --- edge cache sync: one run over a few rows, with every failure ----------------
SyncRowIds == {NULL, 1}

InitSyncRows ==
    /\ now = 0
    /\ faults = {"store", "raise", "d1"}
    /\ rss_sources = <<>>
    /\ feeds = <<>>
    /\ run = [r \in RunIds |-> IdleRun]
    /\ invocations = 0
    /\ attempt = <<>>
    /\ cl = ClusterIdle
    /\ tr = TrendingIdle
    /\ disp = DispatchIdle
    /\ llm = LLMIdle
    /\ req = RequestIdle
    /\ AuxIdle
    /\ \E n \in 0..MaxSyncRows : articles = [k \in 1..n |-> BurstArticle(k)]
    /\ \E bound \in BOOLEAN :
       \E nk \in 0..MaxSyncRows : \E kws \in [1..nk -> SyncRowIds] :
       \E nc \in 0..1 : \E cats \in [1..nc -> SyncRowIds] :
          sync = [SyncIdle EXCEPT !.d1_bound = bound, !.keywords = kws,
                                  !.categories = cats, !.syncs = MaxSyncs - 1]

SpecSyncRows == InitSyncRows /\ [][NextSync]_vars

\* --- deduplication: one source against every small store -------------------------
DedupItems == {ItemA, ItemB, ItemC}

InitDedup ==
    /\ now = 0
    /\ faults \in {{}, {"store"}}
    /\ rss_sources = [id \in {1} |-> Source(id, "ZW", 0, NULL, NULL)]
    /\ \E n \in 0..MaxStored : \E held \in [1..n -> DedupItems] :
          articles = [k \in 1..n |-> StoredArticle(held[k], 0)]
    /\ feeds \in {[id \in {1} |-> f] : f \in {<<ItemA>>, <<ItemA, ItemB>>, <<ItemC>>, <<ItemB, ItemC>>}}
    /\ run = [r \in RunIds |-> IdleRun]
    /\ invocations = 0
    /\ attempt = [id \in {1} |-> NoAttempt]
    /\ cl = ClusterIdle
    /\ ServicesIdle

SpecDedup == InitDedup /\ [][NextAdmit]_vars

\* --- ranker: every request of up to MaxRanked articles -------------------------
\* fine: the thousandths of a point the exact weighted sum has beyond its value
\* rounded to 2 decimals (the recency decay is a real number).
RankArticle(id, source, category_id, recency) ==
    [id |-> id, source |-> source, category_id |-> category_id, recency |-> recency,
     fine |-> 0]

InitRank ==
    /\ now = 0
    /\ faults = {}
    /\ CollectorIdle
    /\ tr = TrendingIdle /\ disp = DispatchIdle /\ sync = SyncIdle /\ llm = LLMIdle
    /\ req = RequestIdle
    /\ kw = KeywordIdle /\ se = SearchIdle /\ hm = HealthIdle
    /\ ps = ParserIdle /\ en = EntryIdle
    /\ \E n \in 0..MaxRanked :
       \E source \in [1..n -> {"Herald", "NewsDay"}] :
       \E category_id \in [1..n -> {"politics", "sport", ""}] :
       \E recency \in [1..n -> {RECENCY_UNKNOWN, 100}] :
          rk = [RankIdle EXCEPT
                  !.pc = "called",
                  !.articles = [k \in 1..n |->
                      RankArticle(k, source[k], category_id[k], recency[k])]]

SpecRank == InitRank /\ [][RankFeed]_vars

\* --- ranker paths: the same request of 2..MaxRanked articles given to both paths --
InitRankPaths ==
    /\ now = 0
    /\ faults = {}
    /\ CollectorIdle
    /\ tr = TrendingIdle /\ disp = DispatchIdle /\ sync = SyncIdle /\ llm = LLMIdle
    /\ req = RequestIdle
    /\ kw = KeywordIdle /\ se = SearchIdle /\ hm = HealthIdle
    /\ ps = ParserIdle /\ en = EntryIdle
    /\ \E n \in 2..MaxRanked :
       \E category_id \in [1..n -> {"politics", "sport"}] :
       \E recency \in [1..n -> {RECENCY_UNKNOWN, 100}] :
       \E fine \in [1..n -> {0, 1}] :
          rk = [RankIdle EXCEPT
                  !.pc = "paths",
                  !.articles = [k \in 1..n |->
                      [RankArticle(k, "Herald", category_id[k], recency[k]) EXCEPT
                          !.fine = fine[k]]]]

NextRankPaths ==
    \/ RankLoop
    \/ RankNumpy

SpecRankPaths == InitRankPaths /\ [][NextRankPaths]_vars

\* --- keyword extractor: dictionaries of up to MaxDict keywords ------------------
\* The dictionary: n keywords, the first one written with capitals or not.
Dictionary(n, up) == [k \in 1..n |-> Keyword(Text(k, up /\ k = 1))]

\* Confidences an LLM answer carries, in hundredths.
Confidences == {0, KW_MIN_CONFIDENCE, KW_MIN_CONFIDENCE + 1, 100, 150}

Proposal(keyword, confidence) == [keyword |-> keyword, confidence |-> confidence]

\* Answers of the LLM for a dictionary: every keyword of the dictionary with one
\* confidence, the first keyword in the other case, the first keyword twice, a
\* keyword that is not in the dictionary, and no keyword.
Answers(db_keywords) ==
    IF db_keywords = <<>> THEN {<<>>}
    ELSE {<<>>}
         \cup {[k \in 1..Len(db_keywords) |-> Proposal(db_keywords[k].name, c)] :
                    c \in Confidences}
         \cup {<<Proposal(Text(1, ~db_keywords[1].name.up), 90)>>}
         \cup {<<Proposal(db_keywords[1].name, 90), Proposal(db_keywords[1].name, 90)>>}
         \cup {<<Proposal(Text(0, FALSE), 90)>>}

InitKeywords ==
    /\ now = 0
    /\ CollectorIdle
    /\ tr = TrendingIdle /\ disp = DispatchIdle /\ sync = SyncIdle /\ llm = LLMIdle
    /\ req = RequestIdle
    /\ rk = RankIdle /\ se = SearchIdle /\ hm = HealthIdle
    /\ ps = ParserIdle /\ en = EntryIdle
    /\ \E n \in {0, 1, 2, MaxDict} : \E up \in BOOLEAN : \E cached \in BOOLEAN :
          /\ faults \in (IF n <= 2 THEN {{}, {"store"}} ELSE {{}})
          /\ kw = [KeywordIdle EXCEPT
                    !.docs = Dictionary(n, up),
                    !.usage = [name \in {Dictionary(n, up)[k].name : k \in 1..n} |-> 0],
                    !.d1_docs = IF cached THEN Dictionary(n, up) ELSE <<>>]

NextKeywords ==
    \/ \E long_content \in BOOLEAN :
       \E words \in {{}, {lower(kw.docs[k].name) : k \in 1..Len(kw.docs)}} :
          ExtractStart(long_content, words)
    \/ ExtractLoad
    \/ \E parsed \in BOOLEAN :
       \E proposals \in (IF parsed THEN Answers(kw.f.db_keywords) ELSE {<<>>}) :
          ExtractAnswer(parsed, proposals)
    \/ ExtractUpdate

SpecKeywords == InitKeywords /\ [][NextKeywords]_vars

\* --- search: stores of up to MaxDocs articles -----------------------------------
SearchDoc(id, category_id, like) ==
    [id |-> id, category_id |-> category_id, published_at |-> id, like |-> like]

InitSearch ==
    /\ now = 0
    /\ faults \in {{}, {"ai", "vector", "store", "d1"}}
    /\ CollectorIdle
    /\ tr = TrendingIdle /\ disp = DispatchIdle /\ sync = SyncIdle /\ llm = LLMIdle
    /\ req = RequestIdle
    /\ rk = RankIdle /\ kw = KeywordIdle /\ hm = HealthIdle
    /\ ps = ParserIdle /\ en = EntryIdle
    /\ \E n \in 0..MaxDocs :
       \E category_id \in [1..n -> {"politics", "sport"}] :
       \E scores \in [1..n -> {70, 80, 90}] :
       \E indexed \in {0, n} :
          LET docs == [k \in 1..n |-> SearchDoc(k, category_id[k], k = 1)]
          IN  se = [SearchIdle EXCEPT
                      !.docs = docs, !.d1_docs = docs,
                      !.scores = [id \in 1..indexed |-> scores[id]]]

NextSearch ==
    \/ \E query \in {"", "q"} : \E options \in {"none", "dict", "not_dict"} :
       \E limit \in {1, 2} : \E category \in {"", "politics"} : \E env \in BOOLEAN :
          SearchStart(query, options, limit, category, env)
    \/ SearchEmbed
    \/ SearchVector
    \/ SearchFetch
    \/ SearchFetchD1
    \/ SearchLike

SpecSearch == InitSearch /\ [][NextSearch]_vars

\* --- source health: the collector and the audit on the same two sources, one of
\* them a failure away from the failing class ------------------------------------
\* Rows the quality aggregate may answer with: none, a group without quality
\* scores, and a group of good articles.
QualityRows ==
    {<<>>, <<[avg_quality |-> 0, count |-> 1]>>, <<[avg_quality |-> 80, count |-> 60]>>}

InitHealth ==
    /\ now = 0
    /\ faults \in {{"http", "raise"}, {"store"}}
    /\ rss_sources = [id \in {1, 2} |->
                        Source(id, IF id = 1 THEN "ZW" ELSE "KE",
                               IF id = 1 THEN HEALTH_FAILING - 1 ELSE 0, NULL, NULL)]
    /\ articles = <<>>
    /\ feeds = [id \in {1, 2} |-> <<>>]
    /\ run = [r \in RunIds |-> IdleRun]
    /\ invocations = 0
    /\ attempt = [id \in {1, 2} |-> NoAttempt]
    /\ cl = ClusterIdle
    /\ ServicesIdle

\* One audit (cron "0 */6 * * *") among the collector invocations (cron
\* "*/15 * * * *").
FirstAudit == hm.calls = 0 /\ HealthStart

NextHealth ==
    \/ StartRun(1)
    \/ LoadSources(1)
    \/ \E i \in DOMAIN run[1].tasks : TaskFetch(1, i)
    \/ GatherDone(1)
    \/ RecordHealth(1)
    \/ FirstAudit
    \/ HealthFind
    \/ \E rows \in QualityRows : HealthQuality(rows)
    \/ HealthUpdate

SpecHealth == InitHealth /\ [][NextHealth]_vars

\* --- classification: the audit of one source with any failure count -------------
HealthClasses == {"healthy", "degraded", "failing", "critical"}

InitClassify ==
    /\ now = 0
    /\ faults \in {{}, {"store"}}
    /\ \E cf \in 0..MaxCF : \E prev \in {""} \cup HealthClasses :
          rss_sources = [id \in {1} |->
                            [Source(id, "ZW", cf, NULL, NULL) EXCEPT
                                !.health_status = prev]]
    /\ articles = <<>>
    /\ feeds = [id \in {1} |-> <<>>]
    /\ run = [r \in RunIds |-> IdleRun]
    /\ invocations = 0
    /\ attempt = [id \in {1} |-> NoAttempt]
    /\ cl = ClusterIdle
    /\ ServicesIdle

NextClassify ==
    \/ HealthStart
    \/ HealthFind
    \/ \E rows \in QualityRows : HealthQuality(rows)
    \/ HealthUpdate

SpecClassify == InitClassify /\ [][NextClassify]_vars

\* --- critical sources: one source a failure away from critical, two collector
\* invocations that may overlap, and an audit --------------------------------------
InitCritical ==
    /\ now = 0
    /\ faults = {"http", "raise"}
    /\ rss_sources = [id \in {1} |-> Source(id, "ZW", HEALTH_CRITICAL - 1, NULL, NULL)]
    /\ articles = <<>>
    /\ feeds = [id \in {1} |-> <<ItemA>>]
    /\ run = [r \in RunIds |-> IdleRun]
    /\ invocations = 0
    /\ attempt = [id \in {1} |-> NoAttempt]
    /\ cl = ClusterIdle
    /\ ServicesIdle

NextCritical ==
    \/ \E r \in RunIds : StartRun(r)
    \/ \E r \in RunIds : LoadSources(r)
    \/ \E r \in RunIds : \E i \in DOMAIN run[r].tasks : TaskFetch(r, i)
    \/ \E r \in RunIds : \E i \in DOMAIN run[r].tasks : TaskFindGuid(r, i)
    \/ \E r \in RunIds : \E i \in DOMAIN run[r].tasks : TaskFindUrl(r, i)
    \/ \E r \in RunIds : \E i \in DOMAIN run[r].tasks : TaskInsert(r, i)
    \/ \E r \in RunIds : GatherDone(r)
    \/ \E r \in RunIds : RecordHealth(r)
    \/ FirstAudit
    \/ HealthFind
    \/ \E rows \in QualityRows : HealthQuality(rows)
    \/ HealthUpdate

SpecCritical == InitCritical /\ [][NextCritical]_vars

\* --- a feed collected again: one source, an unchanged feed, a failing store ------
InitRerun ==
    /\ now = 0
    /\ faults = {"store"}
    /\ rss_sources = [id \in {1} |-> Source(id, "ZW", 0, NULL, NULL)]
    /\ articles = <<>>
    /\ feeds = [id \in {1} |-> <<ItemA, ItemB>>]
    /\ run = [r \in RunIds |-> IdleRun]
    /\ invocations = 0
    /\ attempt = [id \in {1} |-> NoAttempt]
    /\ cl = ClusterIdle
    /\ ServicesIdle

NextRerun ==
    \/ StartRun(1)
    \/ LoadSources(1)
    \/ \E i \in DOMAIN run[1].tasks : TaskFetch(1, i)
    \/ \E i \in DOMAIN run[1].tasks : TaskFindGuid(1, i)
    \/ \E i \in DOMAIN run[1].tasks : TaskFindUrl(1, i)
    \/ \E i \in DOMAIN run[1].tasks : TaskInsert(1, i)
    \/ GatherDone(1)
    \/ RecordHealth(1)
    \/ Tick

SpecRerun == InitRerun /\ [][NextRerun]_vars


\* --- feed parser: one item, with any short title or any image candidates ---------
\* Titles as _text returns them (stripped, not empty): a run of letters that
\* ends at, or one or two characters before, the slug's length limit, followed
\* by up to MaxTail characters of any class.
Titles ==
    LET runs == {0, SLUG_MAX - 2, SLUG_MAX - 1, SLUG_MAX}
        tails == UNION {[1..n -> Chars] : n \in 0..MaxTail}
        all == {[i \in 1..r |-> "a"] \o t : r \in runs, t \in tails}
    IN  {t \in all : t # <<>> /\ t[1] # " " /\ t[Len(t)] # " "}

ImageUrls ==
    {Url("http", FALSE), Url("https", TRUE), Url("//", FALSE), Url("", FALSE), NoUrl}

\* An element with a url and a type attribute, the type naming an image or not.
TypedUrls == {[url |-> u, image_type |-> t] : u \in ImageUrls, t \in BOOLEAN}

Items ==
    [thumbnail : {<<>>} \cup {<<u>> : u \in ImageUrls},
     media_content : {<<>>} \cup {<<m>> : m \in TypedUrls},
     enclosure : {<<>>} \cup {<<e>> : e \in TypedUrls},
     img : {<<>>} \cup {<<u>> : u \in ImageUrls}]

InitParser ==
    /\ now = 0
    /\ faults = {}
    /\ CollectorIdle
    /\ tr = TrendingIdle /\ disp = DispatchIdle /\ sync = SyncIdle /\ llm = LLMIdle
    /\ req = RequestIdle
    /\ rk = RankIdle /\ kw = KeywordIdle /\ se = SearchIdle /\ hm = HealthIdle
    /\ en = EntryIdle
    /\ \/ \E title \in Titles : ps = [ParserIdle EXCEPT !.pc = "item", !.title = title]
       \/ \E item \in Items :
             ps = [ParserIdle EXCEPT !.pc = "item", !.title = <<"a">>, !.item = item]

SpecParser == InitParser /\ [][ParseItem]_vars

\* --- entry point: requests that interleave at their awaits ----------------------
\* The bindings a request is handed: the same object for all, or one of two.
InitEntry ==
    /\ now = 0
    /\ faults = {}
    /\ CollectorIdle
    /\ tr = TrendingIdle /\ disp = DispatchIdle /\ sync = SyncIdle /\ llm = LLMIdle
    /\ req = RequestIdle
    /\ rk = RankIdle /\ kw = KeywordIdle /\ se = SearchIdle /\ hm = HealthIdle
    /\ ps = ParserIdle
    /\ \E envs \in [EntryRequests -> {1, 2}] :
          en = [EntryIdle EXCEPT
                   !.frames = [r \in EntryRequests |->
                                  [EntryFrameIdle EXCEPT !.env = envs[r]]]]

NextEntry ==
    \/ \E r \in EntryRequests : EntryFetch(r)
    \/ \E r \in EntryRequests : EntryScheduled(r)
    \/ \E r \in EntryRequests : EntryGetEnv(r)
    \/ \E r \in EntryRequests : EntryReturn(r)

SpecEntry == InitEntry /\ [][NextEntry]_vars

\* ------------------------------------------------------------------- claims
Finished(r) == run[r].pc = "done" /\ run[r].summary.error = ""

InDue(r, id) == \E i \in DOMAIN run[r].due : run[r].due[i].id = id

\* C1: no two articles of the primary store share an rss_guid, and no two share
\* an original_url, whatever the collector runs did.
C1_NoDuplicateArticles ==
    \A i, j \in 1..Len(articles) :
        i < j => /\ articles[i].rss_guid # articles[j].rss_guid
                 /\ articles[i].original_url # articles[j].original_url

\* C2: a source whose feed fetch failed in a run is recorded by that run as a
\* failure, never as a success, and is counted in the summary's errors.
C2_FetchFailureRecorded ==
    \A r \in RunIds :
        /\ \A k \in 1..Len(run[r].health_records) :
              run[r].health_records[k].source_id \in run[r].fetch_failed
                  => ~run[r].health_records[k].success
        /\ Finished(r) => run[r].summary.errors >= Cardinality(run[r].fetch_failed)

\* C3: a finished run holds exactly one health record per admitted source and
\* none for any other; the update the store serves for a source whose processing
\* succeeded sets consecutive_failures to 0 and both fetch timestamps to the
\* recording time, the one for a source whose fetch or processing failed adds
\* exactly 1 to consecutive_failures and sets last_error_at and last_error; no
\* other source changes.
C3_OneRecordEach ==
    \A r \in RunIds :
        Finished(r) =>
            /\ Len(run[r].health_records) = Len(run[r].due)
            /\ \A i \in DOMAIN run[r].due :
                  Cardinality({k \in 1..Len(run[r].health_records) :
                      run[r].health_records[k].source_id = run[r].due[i].id}) = 1

C3_UpdateStep(r) ==
    LET f == run[r]
        id == f.health_records[f.hi].source_id
        failed == id \in f.fetch_failed \cup f.raised
        old == rss_sources[id]
        new == rss_sources'[id]
    IN  (f.pc = "health" /\ run'[r] # f /\ run'[r].served[f.hi]) =>
            /\ IF failed
               THEN /\ new.consecutive_failures = old.consecutive_failures + 1
                    /\ new.last_error_at = f.rec_now
                    /\ new.last_error # ""
               ELSE /\ new.consecutive_failures = 0
                    /\ new.last_successful_fetch = f.rec_now
                    /\ new.last_fetch_at = f.rec_now
            /\ \A other \in DOMAIN rss_sources \ {id} :
                  rss_sources'[other] = rss_sources[other]

C3_HealthUpdates ==
    /\ []C3_OneRecordEach
    /\ [][\A r \in RunIds : C3_UpdateStep(r)]_vars

\* C4: a source that is critical (8 or more consecutive failures) in the records
\* a run loaded is never admitted by should_fetch, whatever its timestamps, and
\* no fetch is ever attempted on a source the scheduler saw as critical.
C4_CriticalNeverFetched ==
    /\ \A r \in RunIds : \A k \in 1..Len(run[r].sources) :
          run[r].sources[k].consecutive_failures >= 8
              => ~InDue(r, run[r].sources[k].id)
    /\ \A id \in DOMAIN attempt : attempt[id].last # NULL => attempt[id].cf < 8

C4_Witness ==
    \E r \in RunIds :
        /\ Finished(r)
        /\ Len(run[r].sources) = 1
        /\ run[r].sources[1].consecutive_failures >= 8
        /\ run[r].sources[1].last_successful_fetch = NULL
        /\ run[r].sources[1].last_fetch_at = NULL
        /\ run[r].due = <<>>

\* C5 (as claimed): a source without fetch timestamps is admitted for every
\* value of consecutive_failures.
C5_NeverFetchedAlwaysAdmitted ==
    \A r \in RunIds : \A k \in 1..Len(run[r].sources) :
        (/\ run[r].sources[k].last_successful_fetch = NULL
         /\ run[r].sources[k].last_fetch_at = NULL)
            => InDue(r, run[r].sources[k].id)

\* C5 (amended): a source without fetch timestamps is admitted for every
\* consecutive_failures from 0 to 7; from 8 on it is critical and skipped.
C5_NeverFetchedAdmittedUnlessCritical ==
    \A r \in RunIds : \A k \in 1..Len(run[r].sources) :
        (/\ run[r].sources[k].last_successful_fetch = NULL
         /\ run[r].sources[k].last_fetch_at = NULL)
            => (InDue(r, run[r].sources[k].id)
                    <=> run[r].sources[k].consecutive_failures \in 0..7)

C5_Witness ==
    \E r \in RunIds :
        /\ Len(run[r].sources) = 1
        /\ run[r].sources[1].last_successful_fetch = NULL
        /\ run[r].sources[1].last_fetch_at = NULL
        /\ run[r].sources[1].consecutive_failures = 7
        /\ InDue(r, run[r].sources[1].id)

\* The interval of the claim: 15 minutes healthy, 30 degraded, 60 failing.
ClaimedInterval(cf) == IF cf = 0 THEN 15 ELSE IF cf <= 3 THEN 30 ELSE 60

\* The timestamp the claim measures from: last_successful_fetch, or last_fetch_at
\* when that is absent.
ClaimedLast(source) ==
    IF source.last_successful_fetch = NULL THEN source.last_fetch_at
    ELSE source.last_successful_fetch

\* C6 (as claimed): a non-critical source with a recorded timestamp is admitted
\* iff the minutes since that timestamp exceed the interval of its health class.
C6_AdmittedIffElapsedExceeds ==
    \A r \in RunIds : \A k \in 1..Len(run[r].sources) :
        LET src == run[r].sources[k]
        IN  (src.consecutive_failures \in 0..7 /\ ClaimedLast(src) \notin {NULL, BAD})
                => (InDue(r, src.id)
                        <=> now - ClaimedLast(src) > ClaimedInterval(src.consecutive_failures))

\* C6 (amended): a non-critical source with a recorded timestamp is admitted iff
\* the minutes since that timestamp are at least the interval of its health
\* class (15, 30, 60); a timestamp that cannot be parsed admits the source.
C6_AdmittedIffElapsedAtLeast ==
    \A r \in RunIds : \A k \in 1..Len(run[r].sources) :
        LET src == run[r].sources[k]
        IN  (src.consecutive_failures \in 0..7 /\ ClaimedLast(src) # NULL)
                => (InDue(r, src.id)
                        <=> \/ ClaimedLast(src) = BAD
                            \/ now - ClaimedLast(src)
                                   >= ClaimedInterval(src.consecutive_failures))

C6_Witness ==
    \E r \in RunIds :
        /\ Len(run[r].sources) = 1
        /\ run[r].sources[1].consecutive_failures = 2
        /\ run[r].sources[1].last_successful_fetch = NULL
        /\ now - run[r].sources[1].last_fetch_at = 30
        /\ InDue(r, run[r].sources[1].id)

\* The separation the claim promises while a source is backed off.
ClaimedBackoff(cf) == IF cf = 0 THEN 0 ELSE IF cf <= 3 THEN 30 ELSE 60

\* C7: with the collector fired every 15 minutes, two consecutive fetch attempts
\* on a source are at least 30 minutes apart when the later one finds the source
\* degraded, and at least 60 when it finds it failing.
C7_BackoffRespected ==
    \A id \in DOMAIN attempt :
        attempt[id].gap # NULL => attempt[id].gap >= ClaimedBackoff(attempt[id].cf)

\* Tasks of a run that were started and have not finished.
InFlightTasks(r) ==
    {i \in DOMAIN run[r].tasks : run[r].tasks[i].pc \notin {"pending", "done"}}

\* Outbound calls of a run in flight: its own store RPC, and one per task
\* waiting on its fetch or on a store RPC.
InFlightCalls(r) ==
    Cardinality(InFlightTasks(r)) + (IF run[r].pc \in {"load", "health"} THEN 1 ELSE 0)

\* The batch (0, 1, ...) of position i of the due list.
BatchOf(i) == (i - 1) \div 10

\* C8: at most 10 fetch-and-process tasks of a run are in flight, a task of a
\* later batch is started only when every task of the earlier batches has
\* finished, and at most 50 outbound calls of the run are in flight.
C8_BatchesBounded ==
    \A r \in RunIds :
        /\ Cardinality(InFlightTasks(r)) <= 10
        /\ \A i, j \in DOMAIN run[r].tasks :
              (BatchOf(j) < BatchOf(i) /\ run[r].tasks[i].pc # "pending")
                  => run[r].tasks[j].pc = "done"
        /\ InFlightCalls(r) <= 50

C8_Witness ==
    \E r \in RunIds :
        /\ Len(run[r].tasks) > 10
        /\ \A j \in 1..10 : run[r].tasks[j].pc = "done"
        /\ \E j \in 1..10 : run[r].tasks[j].result.exc
        /\ run[r].tasks[11].pc = "fetch"

\* C9: collect_feeds never raises, and a run that returns a summary has
\* processed and recorded every admitted source, whatever the other sources did.
C9_NeverRaises ==
    \A r \in RunIds :
        /\ run[r].pc # "raised"
        /\ Finished(r) => Len(run[r].health_records) = Len(run[r].due)

\* The positions of the input in one cluster.
Members(c) == {c.primary} \cup Range(c.related)

\* C10: any two distinct articles of a returned cluster come from different sources.
C10_ClusterCrossSource ==
    cl.pc = "returned" =>
        \A k \in 1..Len(cl.result.clusters) :
            \A x, y \in Members(cl.result.clusters[k]) :
                x # y => cl.articles[x].source # cl.articles[y].source

\* The keywords of a snapshot's topic list (the cached global snapshot keeps the
\* list under "global").
TopKeywords(snapshot) ==
    LET topics == IF "topics" \in DOMAIN snapshot THEN snapshot.topics
                  ELSE IF "global" \in DOMAIN snapshot THEN snapshot.global
                  ELSE <<>>
    IN  {topics[k].keyword : k \in 1..Len(topics)}

\* C11: while the KV entry of a scope is within its 30-minute TTL, the snapshot
\* get_trending served from the cache and a snapshot computed now for the same
\* scope over the same articles hold the same set of top keywords.
C11_CachedEqualsFresh ==
    (/\ tr.get.pc = "returned"
     /\ tr.get.source = "cache"
     /\ now < tr.kv[cache_key(tr.get.country_id)].expires)
        => TopKeywords(tr.get.result)
               = TopKeywords([topics |-> _compute_trending(TRUE, tr.corpus,
                                  tr.get.country_id, now - TRENDING_WINDOW)])

\* C12: every result of get_trending, cached or live, has a list under the key
\* topics and has the key updated_at.
C12_TrendingShape ==
    tr.get.pc = "returned" =>
        /\ {"topics", "updated_at"} \subseteq DOMAIN tr.get.result
        /\ DOMAIN tr.get.result.topics = 1..Len(tr.get.result.topics)

\* The pipelines the claim assigns to a cron pattern.
ClaimedPipelines(cron) ==
    CASE cron = "*/15 * * * *" -> <<"collect_feeds">>
      [] cron = "0 * * * *"    -> <<"sync_edge_cache">>
      [] cron = "*/30 * * * *" -> <<"refresh_trending">>
      [] cron = "0 */6 * * *"  -> <<"check_source_health">>
      [] OTHER -> <<>>

\* C13: handle_scheduled invokes exactly the one pipeline of each of the four
\* cron patterns and none for any other pattern, and it never raises, whatever
\* the pipeline returns or raises.
C13_DispatchExactlyOne ==
    /\ disp.pc # "raised"
    /\ disp.pc \in {"await", "returned"} => disp.invoked = ClaimedPipelines(disp.cron)
    /\ \A k \in 1..Len(disp.history) :
          disp.history[k].invoked = ClaimedPipelines(disp.history[k].cron)

C13_Witness ==
    /\ disp.pc = "returned"
    /\ disp.cron = "*/15 * * * *"
    /\ disp.invoked = <<"collect_feeds">>
    /\ disp.log = "failed"
    /\ \E k \in 1..Len(disp.history) : disp.history[k].cron = "0 0 * * *"

\* C14: every article of the primary store created before the start of a sync
\* run that has completed is in the edge cache.
C14_SyncedWithinOneCycle ==
    \A k \in DOMAIN articles :
        (sync.last_done_start # NULL /\ articles[k].created_at <= sync.last_done_start)
            => article_id(k) \in sync.d1["articles"]

\* C15: a sync run that returns its stats has attempted every row its queries
\* returned; articles, keywords and categories each equal the rows written to
\* the edge cache in the run, and errors equals the rows whose upsert failed.
C15_SummaryAccurate ==
    (sync.f.pc = "returned" /\ sync.d1_bound) =>
        /\ sync.f.attempted = sync.f.fetched
        /\ sync.f.result.articles = sync.f.written["articles"]
        /\ sync.f.result.keywords = sync.f.written["keywords"]
        /\ sync.f.result.categories = sync.f.written["categories"]
        /\ sync.f.result.errors = sync.f.failed

\* C16: an LLM call never makes more than 2 attempts, and a call that failed
\* returns its empty result only after 2 attempts.
C16_RetriedTwice ==
    /\ llm.attempts <= MAX_RETRIES
    /\ (llm.pc = "returned" /\ llm.failed) =>
          /\ llm.attempts = MAX_RETRIES
          /\ llm.result \in {"", "None"}

\* The paths the router knows.
KnownPaths == RequestPaths \ {"/nope"}

\* C17: a POST route given a body that is not JSON answers 400 without running
\* its handler; an unknown path, and a known path (other than /health) under a
\* method it does not support, answer 404 without running a handler.
C17_ContractRejected ==
    req.pc = "responded" =>
        /\ (req.route # <<>> /\ req.body = "not_json" /\ req.method = "POST")
              => (req.response.status = 400 /\ ~req.handler_ran)
        /\ req.path \notin KnownPaths
              => (req.response.status = 404 /\ ~req.handler_ran)
        /\ (req.path \in KnownPaths \ {"/health"} /\ req.route = <<>>)
              => (req.response.status = 404 /\ ~req.handler_ran)

\* C18: handle_request never raises; when the dispatched branch raised, the
\* response is a 500 whose error is the exception's string.
C18_BarrierCatches ==
    /\ req.pc # "raised"
    /\ (req.pc = "responded" /\ req.outcome = "raise") =>
          (req.response.status = 500 /\ req.response.error = "exception")

C18_Witness ==
    /\ req.pc = "responded"
    /\ req.handler_ran
    /\ req.outcome = "raise"
    /\ req.response.status = 500
    /\ req.path = "/feed/collect"

\* The deduplication keys of a sequence of articles.
Keys(arts) == {<<arts[k].rss_guid, arts[k].original_url>> : k \in 1..Len(arts)}

\* The incoming articles no stored article shares a key with.
NewToStore(incoming) ==
    {<<incoming[k].rss_guid, incoming[k].original_url>> : k \in
        {j \in 1..Len(incoming) :
            \A x \in DOMAIN articles :
                /\ articles[x].rss_guid # incoming[j].rss_guid
                /\ articles[x].original_url # incoming[j].original_url}}

\* C19: when _deduplicate returns, the articles it keeps are exactly the incoming
\* ones whose rss_guid no stored article has and whose original_url no stored
\* article has.
C19_DedupStep(r, i) ==
    (/\ run[r].pc = "gather"
     /\ run[r].tasks[i].pc = "find_url"
     /\ run'[r].tasks[i] # run[r].tasks[i])
        => Keys(run'[r].tasks[i].new_articles) = NewToStore(run[r].tasks[i].articles)

C19_KeepsIffNew ==
    [][\A r \in RunIds : \A i \in DOMAIN run[r].tasks : C19_DedupStep(r, i)]_vars

\* C20: every article in the primary store went through fetch, parse,
\* deduplication, enrichment and stamping, in this order, and carries
\* content_hash, created_at and ai_processed = false.
C20_InsertedEnriched ==
    \A k \in DOMAIN articles :
        /\ articles[k].passed = <<"fetch", "parse", "dedup", "enrich", "stamp">>
        /\ {"content_hash", "created_at", "ai_processed"} \subseteq DOMAIN articles[k]
        /\ articles[k].ai_processed = FALSE

\* The place of a country in the claimed order: the sixteen listed countries
\* first, every other country last.
ClaimedRank(country) ==
    LET listed == <<"ZW", "ZA", "KE", "NG", "GH", "TZ", "UG", "RW", "ET", "BW", "ZM",
                    "MW", "EG", "MA", "NA", "MZ">>
    IN  IF \E p \in 1..16 : listed[p] = country
        THEN CHOOSE p \in 1..16 : listed[p] = country
        ELSE 17

\* Source a precedes source b in the claimed order.
ClaimedBefore(a, b) ==
    \/ ClaimedRank(a.country_id) < ClaimedRank(b.country_id)
    \/ /\ ClaimedRank(a.country_id) = ClaimedRank(b.country_id)
       /\ a.consecutive_failures < b.consecutive_failures

\* C21: when an admitted source a precedes an admitted source b in the order
\* (country priority, then consecutive_failures ascending), a is in the same or
\* an earlier batch than b, and b's task is not started before a's.
C21_PriorityOrder ==
    \A r \in RunIds :
        \A i, j \in DOMAIN run[r].tasks :
            ClaimedBefore(run[r].due[i], run[r].due[j])
                => /\ BatchOf(i) <= BatchOf(j)
                   /\ run[r].tasks[j].pc # "pending" => run[r].tasks[i].pc # "pending"

C21_Witness ==
    \E r \in RunIds :
        /\ Len(run[r].tasks) > 10
        /\ run[r].tasks[11].pc = "done"
        /\ run[r].due[1].country_id = "ZW"
        /\ run[r].due[11].country_id \in {"XX", ""}
        /\ \E i \in 1..10 :
              /\ run[r].due[i].country_id = run[r].due[i + 1].country_id
              /\ run[r].due[i].consecutive_failures < run[r].due[i + 1].consecutive_failures

\* The number of candidates of i's category that come before i when the
\* candidates are walked in descending raw-score order (equal scores in input
\* order).
RepeatsBefore(arts, i) ==
    Cardinality({j \in 1..Len(arts) :
        /\ j # i
        /\ category_of(arts[j]) = category_of(arts[i])
        /\ \/ raw_score(arts[j], RankPrefs) > raw_score(arts[i], RankPrefs)
           \/ /\ raw_score(arts[j], RankPrefs) = raw_score(arts[i], RankPrefs)
              /\ j < i})

C23_ClusterLimits ==
    cl.pc = "returned" =>
        /\ Len(cl.result.clusters) <= cl.max_clusters
        /\ \A k \in 1..Len(cl.result.clusters) :
              Len(cl.result.clusters[k].related) <= cl.max_related

\* The number of records of the result that name a keyword, whatever the case.
Returned(name) ==
    Cardinality({k \in 1..Len(kw.f.result) : lower(kw.f.result[k].keyword) = lower(name)})

\* C24: when extract_keywords has returned and every store call succeeded, a
\* keyword of the primary store was incremented once if the result names it
\* and not at all otherwise, and the result has at most 8 records.
C24_UsageMatchesResult ==
    (kw.f.pc = "returned" /\ ~kw.f.rpc_failed) =>
        /\ Len(kw.f.result) <= 8
        /\ \A name \in DOMAIN kw.usage :
              kw.usage[name] - kw.f.usage0[name] = IF Returned(name) > 0 THEN 1 ELSE 0

\* C25: extract_keywords returns at most 8 records; each names a keyword of the
\* loaded dictionary (whatever the case) and carries a confidence in (0, 1], and
\* a record accepted from the LLM has a confidence above 0.5.
C25_ResultWellFormed ==
    kw.f.pc = "returned" =>
        /\ Len(kw.f.result) <= 8
        /\ \A k \in 1..Len(kw.f.result) :
              LET rec == kw.f.result[k]
              IN  /\ \E d \in 1..Len(kw.f.db_keywords) :
                        lower(kw.f.db_keywords[d].name) = lower(rec.keyword)
                  /\ rec.confidence > 0 /\ rec.confidence <= 100
                  /\ rec.by = "llm" => rec.confidence > 50

\* C26: semantic_search never raises; when it returns, the method is "none"
\* exactly for an empty query or missing bindings, "semantic" exactly when the
\* index returned at least one match, and "keyword" otherwise (no embedding, a
\* failed vector query, or a vector query with no match).
C26_MethodAndNeverRaises ==
    /\ se.f.pc # "raised"
    /\ se.f.pc = "returned" =>
          /\ se.f.method = "none" <=> (se.f.query = "" \/ ~se.f.env)
          /\ se.f.method = "semantic" <=> se.f.vector = "matches"
          /\ se.f.method \in {"none", "semantic", "keyword"}
          /\ (se.f.method = "keyword" /\ ~se.f.embedded) => se.f.vector = "none"

\* The vector matches whose article is in the store that served the rows and
\* passes the post-filters.
FilteredIn ==
    {m \in 1..Len(se.f.matches) :
        \E d \in 1..Len(se.f.served) :
            /\ se.f.served[d].id = se.f.matches[m].id
            /\ passes(se.f.served[d], se.f.category)}

\* C27: on the semantic path the results are the limit highest-scoring matches
\* among those passing the post-filters, by score descending: no filtered-in
\* match of a higher score than a returned one is left out.
C27_TopScoring ==
    (se.f.pc = "returned" /\ se.f.method = "semantic") =>
        LET results == se.f.results
            ids == {results[k].id : k \in 1..Len(results)}
        IN  /\ \A k \in 1..Len(results) - 1 : results[k].score >= results[k + 1].score
            /\ Len(results) = IF Cardinality(FilteredIn) < se.f.limit
                              THEN Cardinality(FilteredIn) ELSE se.f.limit
            /\ \A m \in FilteredIn :
                  se.f.matches[m].id \notin ids =>
                      \A k \in 1..Len(results) : results[k].score >= se.f.matches[m].score

\* The class the documentation gives a failure count.
ClaimedHealth(n) ==
    IF n = 0 THEN "healthy"
    ELSE IF n <= 3 THEN "degraded"
    ELSE IF n <= 7 THEN "failing"
    ELSE "critical"

\* C29: classify_health(n) is healthy for 0, degraded for 1..3, failing for
\* 4..7 and critical from 8 on, and the class never improves as n grows: every
\* update the audit builds, and every document it has written, carries that
\* class for the failure count the audit read, and no smaller count has a
\* worse class.
C29_ClassifyHealth ==
    /\ \A k \in 1..Len(hm.updates) :
          LET update == hm.updates[k]
          IN  /\ update.health_status = ClaimedHealth(update.failures)
              /\ \A m \in 0..update.failures :
                    _health_rank(classify_health(m)) <= _health_rank(update.health_status)
    /\ \A id \in hm.written :
          \E k \in 1..Len(hm.updates) :
              /\ hm.updates[k].source_id = id
              /\ rss_sources[id].health_status = ClaimedHealth(hm.updates[k].failures)

\* C29 witness: the audit has returned after storing the critical class for a
\* source with exactly 8 failures.
C29_Witness ==
    /\ hm.pc = "returned"
    /\ 1 \in hm.written
    /\ rss_sources[1].consecutive_failures = HEALTH_CRITICAL
    /\ rss_sources[1].health_status = "critical"
    /\ hm.result.critical = 1

\* The fields of a source document the collector writes, and those the audit
\* writes.
LivenessFields(source) ==
    <<source.consecutive_failures, source.last_successful_fetch, source.last_fetch_at,
      source.last_error_at, source.last_error>>

HealthFields(source) ==
    <<source.health_status, source.source_quality_score, source.avg_article_quality,
      source.avg_engagement, source.article_count_7d>>

\* C30: a step that changes a liveness field of a source is the collector's and
\* leaves the five audited fields as they were; a step that changes an audited
\* field is the audit's update and leaves the five liveness fields as they
\* were; no step adds or removes a source.
C30_DisjointWriters ==
    [][ /\ DOMAIN rss_sources' = DOMAIN rss_sources
        /\ \A id \in DOMAIN rss_sources :
              /\ LivenessFields(rss_sources'[id]) # LivenessFields(rss_sources[id]) =>
                    /\ hm' = hm
                    /\ \E r \in RunIds : run[r].pc = "health" /\ run'[r] # run[r]
                    /\ HealthFields(rss_sources'[id]) = HealthFields(rss_sources[id])
              /\ HealthFields(rss_sources'[id]) # HealthFields(rss_sources[id]) =>
                    /\ hm.pc = "update" /\ hm' # hm
                    /\ run' = run
                    /\ LivenessFields(rss_sources'[id]) = LivenessFields(rss_sources[id])
      ]_vars

\* C30 witness: one document carries a failure recorded by the collector and
\* the class stored by the audit.
C30_Witness ==
    /\ rss_sources[1].consecutive_failures = HEALTH_FAILING
    /\ rss_sources[1].last_error_at # NULL
    /\ rss_sources[1].health_status \in {"degraded", "failing"}
    /\ rss_sources[1].source_quality_score # NULL
    /\ 1 \in hm.written

\* The stored status an audit compares with: a missing one counts as healthy.
StoredHealth(source) ==
    IF source.health_status = "" THEN "healthy" ELSE source.health_status

\* The sources an alert list names.
Alerted(alerts) == {alerts[a].source_id : a \in 1..Len(alerts)}

\* An audit alerts for a source exactly when the class of its failure count is
\* strictly worse than the status stored for it.
AlertsExactlyDegraded ==
    \A k \in 1..Len(hm.updates) :
        hm.updates[k].source_id \in Alerted(hm.alerts) <=>
            _health_rank(classify_health(hm.sources[k].consecutive_failures))
                > _health_rank(StoredHealth(hm.sources[k]))

C32_SlugWellFormed ==
    ps.pc = "parsed" =>
        /\ Len(ps.slug) <= SLUG_MAX
        /\ \A i \in 1..Len(ps.slug) : ps.slug[i] \in {"a", "7", "-"}
        /\ ps.slug # <<>> => (ps.slug[1] # "-" /\ ps.slug[Len(ps.slug)] # "-")

\* C33: every image_url the parser emits is an absolute http(s) URL that names
\* no blocked domain, whichever element supplied it.
C33_ImageUrlValid ==
    (ps.pc = "parsed" /\ ps.image_url # <<>>) =>
        /\ ~ps.image_url[1].empty
        /\ ps.image_url[1].scheme \in {"http", "https"}
        /\ ~ps.image_url[1].ad

\* C34: whatever the interleaving of fetch requests and cron invocations,
\* get_env() returns to the code of a request the bindings of that request.
C34_OwnBindings ==
    \A r \in EntryRequests :
        en.frames[r].seen # <<>> => en.frames[r].seen = <<en.frames[r].env>>

\* C35: for every request, _rank_numpy and _rank_loop give every article the
\* same final score to 2 decimals.
C35_PathsAgree ==
    (rk.by_loop # <<>> /\ rk.by_numpy # <<>>) => rk.by_loop = rk.by_numpy

\* C36: once a source has 8 or more consecutive failures, no step of a
\* collector run or an audit lowers the count, and no run that loads the
\* sources from then on admits it.
C36_CriticalAbsorbing ==
    [][ \A id \in DOMAIN rss_sources :
           rss_sources[id].consecutive_failures >= HEALTH_CRITICAL =>
              /\ rss_sources'[id].consecutive_failures
                    >= rss_sources[id].consecutive_failures
              /\ \A r \in RunIds :
                    (run[r].pc = "load" /\ run'[r].pc # "load") =>
                        \A k \in 1..Len(run'[r].due) : run'[r].due[k].id # id
      ]_vars

\* C37: when an audit returns having stored all its updates, every enabled
\* source's stored health_status is the class of its stored
\* consecutive_failures, whatever the collector wrote during the audit.
C37_StatusMatchesFailures ==
    [][ (/\ hm.pc = "update" /\ hm'.pc = "returned"
         /\ hm'.written = {hm.sources[k].id : k \in 1..Len(hm.sources)}) =>
            \A id \in DOMAIN rss_sources' :
                rss_sources'[id].enabled =>
                    rss_sources'[id].health_status
                        = classify_health(rss_sources'[id].consecutive_failures)
      ]_vars

\* C38: the first collector run over an empty store reports in its summary
\* exactly as many new articles as the store holds when it returns, and its
\* success record for a source carries the same count, also when insert_many
\* fails.
C38_SummaryCountsStored ==
    (invocations = 1 /\ Finished(1)) =>
        /\ run[1].summary.new_articles = Len(articles)
        /\ sum_articles(run[1].health_records) = Len(articles)

\* Every item the feed of the source serves is stored under its rss_guid.
Ingested(id) ==
    \A k \in 1..Len(feeds[id]) :
        \E j \in 1..Len(articles) : articles[j].rss_guid = feeds[id][k].rss_guid

\* C39: once every item of the unchanged feed is stored, no step of a
\* collector run adds an article, whatever the deduplication lookups return.
C39_RerunInsertsNothing ==
    [][ (\A id \in DOMAIN feeds : Ingested(id)) => articles' = articles ]_vars

\* C40: in the clusters _build_clusters returns, no input article appears in
\* more than one cluster or twice in one (as primary or related), every related
\* article comes later in the input than the primary of its cluster, and
\* article_count is 1 plus the number of related articles.
C40_ClustersPartition ==
    cl.pc = "returned" =>
        LET cs == cl.result.clusters
        IN  /\ \A k, l \in 1..Len(cs) : k # l => Members(cs[k]) \cap Members(cs[l]) = {}
            /\ \A k \in 1..Len(cs) :
                  /\ \A x \in 1..Len(cs[k].related) :
                        /\ cs[k].related[x] > cs[k].primary
                        /\ \A y \in 1..Len(cs[k].related) :
                              x # y => cs[k].related[x] # cs[k].related[y]
                  /\ cs[k].article_count = 1 + Len(cs[k].related)

\* A later primary is similar enough to an article of another source that an
\* earlier cluster already holds as related.
C40_Witness ==
    /\ cl.pc = "returned"
    /\ cl.result.method = "jaccard"
    /\ \E k, l \in 1..Len(cl.result.clusters) :
          LET c == cl.result.clusters[k]
              d == cl.result.clusters[l]
          IN  /\ c.primary < d.primary
              /\ c.article_count = 2
              /\ \E x \in 1..Len(c.related) :
                    /\ c.related[x] > d.primary
                    /\ cl.articles[c.related[x]].source # cl.articles[d.primary].source
                    /\ cl.sim[<<d.primary, c.related[x]>>] >= cl.threshold

\* The seven scopes refresh_trending computes; "" is the global scope.
TrendingScopes == {""} \cup Range(TRENDING_COUNTRIES)

\* The topic list refresh_trending computed for a scope.
ComputedTopics(f, scope) ==
    IF scope = "" THEN f.global_topics ELSE f.country_topics[scope]

\* The topic list a KV value holds (the global value keeps it under "global").
StoredTopics(value) ==
    IF "topics" \in DOMAIN value THEN value.topics
    ELSE IF "global" \in DOMAIN value THEN value.global ELSE <<>>

\* C28: after a refresh_trending run that completed with the KV store available,
\* each of the seven scopes has a KV entry under trending:<scope> that was
\* written by this run with the 30-minute TTL and holds the topic list the run
\* computed for the scope.
C28_EveryScopeRefreshed ==
    tr.refresh.pc = "done" =>
        \A scope \in TrendingScopes :
            LET entry == tr.kv[cache_key(scope)]
            IN  /\ entry.value # <<>>
                /\ entry.expires = tr.refresh.result.updated_at + TRENDING_TTL
                /\ StoredTopics(entry.value[1]) = ComputedTopics(tr.refresh, scope)

====
